---- MODULE Spec2Model ----
(***************************************************************************)
(* Verification model of the ingestion / fallback orchestration core of    *)
(* NAVADA-WORLD-VIEW: the guarded task scheduler and the layer fallback    *)
(* ladder of src/app/data-loader.ts (specification Spec), the generative   *)
(* provider caches of the *-ai-fallback services (specification SpecCache),*)
(* the per-category news pipeline (specification SpecNews), the signal     *)
(* emission path (specification SpecSignals), the population-exposure      *)
(* fallback (SpecExposure), the chunked fan-out of loadNews (SpecChunks),  *)
(* one getter of a generative service (SpecGen), the datasets held on the  *)
(* context (SpecCtx), the retry policies (SpecRetry), the map flashes of   *)
(* flashMapForNews (SpecFlash) and the polling loop of waitForAisData      *)
(* (SpecAis).                                                              *)
(***************************************************************************)
EXTENDS Integers, Sequences, FiniteSets, Bags, TLC

(***************************************************************************)
(* Bounds of the model (not program constants).                            *)
(***************************************************************************)
\* number of loadAllData calls explored
MaxCycles == 2
\* number of loadDataForLayer calls explored
MaxLayerLoads == 1
\* concurrent callers of the generative market cache, calls and clock steps
MaxCallers == 2
MaxCalls == 3
MaxTicks == 3
\* feeds of the news category, and partial batches its fetch may deliver
MaxFeeds == 5
MaxBatches == 2
\* correlation passes, learning-mode switches and flight analyses explored
MaxPasses == 2
MaxToggles == 2
MaxFlightRuns == 1
\* setExposures calls explored
MaxExposureCalls == 3
\* categories of the FEEDS table explored
MaxCategories == 6
\* calls of one generative getter explored
MaxGenCalls == 2
\* calls of flashMapForNews and the length of a batch of items
MaxFlashCalls == 3
MaxBatchLen == 2

VARIABLES
    \* ---- scheduler and ladder (data-loader.ts) ----
    cfg,          \* SITE_VARIANT, ctx.mapLayers, CYBER_LAYER_ENABLED of this run
    isDestroyed,  \* ctx.isDestroyed
    inFlight,     \* ctx.inFlight : Set<string>
    running,      \* bag of the operations that are executing (awaiting I/O)
    cycles,       \* number of loadAllData calls so far
    joined,       \* the load cycles whose Promise.allSettled join has returned
    layerLoads,   \* number of loadDataForLayer calls so far
    sweepTimers,  \* pending setTimeout(ensureAllLayersPopulated, 3000) timers
    sweepPc,      \* position of the running ensureAllLayersPopulated, or "idle"
    sweepsDone,   \* number of completed sweeps
    layer,        \* what the map holds per layer: [data, ready]
    layerLoading, \* layers whose loading indicator is on (map.setLayerLoading)
    intelCache,   \* ctx.intelligenceCache.{outages,protests,military}
    cyberCache,   \* ctx.cyberThreatsCache
    aiLayerCache, \* layer-ai-fallback `cache` (the parsed payload) or "null"
    aiLayerFresh, \* Date.now() - cache.timestamp < CACHE_TTL
    caught,       \* task names whose failure runGuarded has caught
    logged,       \* task names runGuarded has logged with console.error
    rejected,     \* names whose runGuarded or loadDataForLayer promise rejected
    dupCalls,     \* task names called again while already in flight
    liveOk        \* layers whose upstream fetch has returned at least once

schedVars == <<cfg, isDestroyed, inFlight, running, cycles, joined, layerLoads,
               sweepTimers, sweepPc, sweepsDone, layer, layerLoading, intelCache,
               cyberCache, aiLayerCache, aiLayerFresh, caught, logged, rejected,
               dupCalls, liveOk>>

VARIABLES
    \* ---- clock ----
    now,             \* Date.now(), in ms
    ticks,           \* number of clock steps taken
    \* ---- generative market cache (market-ai-fallback) ----
    xaiAvail,        \* isFeatureAvailable('aiXai')
    aiCache,         \* the module's aiCache: [has, timestamp, val]
    fetchInProgress, \* the module's fetchInProgress: 0 (null) or an evaluation
    evals,           \* the provider-chain evaluations started so far
    callers,         \* per caller, its latest fetchAIMarketData call: position,
                     \* awaited evaluation, result, and the cache entry it saw
    calls,           \* number of fetchAIMarketData calls so far
    httpCalls        \* number of HTTPS requests sent to the providers

clockVars == <<now, ticks>>

cacheVars == <<xaiAvail, aiCache, fetchInProgress, evals, callers, calls, httpCalls>>

VARIABLES
    \* ---- one news category (loadNewsCategory) ----
    disabledSources, \* ctx.disabledSources, restricted to the category's feeds
    hasPanel,        \* ctx.newsPanels[category] exists
    newsPc,          \* position of the loadNewsCategory call
    fetchedFeeds,    \* the feeds passed to fetchCategoryFeeds
    netCalls,        \* network requests made for the category
    batches,         \* number of onBatch callbacks so far
    lastRenderTime,  \* closure variable lastRenderTime
    renderTimeout,   \* closure variable renderTimeout: 0 (null) or its due time
    pendingItems,    \* closure variable pendingItems: 0 (null) or a batch number
    renders,         \* the renderNewsForCategory calls: [at, items, afterReturn]
    newsByCategory,  \* ctx.newsByCategory[category]: Absent or an item list
    panelMsg,        \* what the category panel shows
    feedStatus,      \* the last statusPanel.updateFeed for the category
    ret,             \* the list loadNewsCategory returns (kept from the fetch on)
    feedFailed       \* getFeedFailures() names an enabled feed of the category

newsVars == <<disabledSources, hasPanel, newsPc, fetchedFeeds, netCalls, batches,
              lastRenderTime, renderTimeout, pendingItems, renders, newsByCategory,
              panelMsg, feedStatus, ret, feedFailed>>

\* the correlation engine's emission path
VARIABLES
    learningMode,     \* isInLearningMode()
    toggles,          \* switches of the learning-mode flag so far
    geoIndex,         \* cluster keys of the geo events ingested so far
    seenGeoAlerts,    \* ctx.seenGeoAlerts
    trending,         \* keyword-spike signals waiting to be drained
    passPc,           \* position of each runCorrelationAnalysis call
    flightRuns,       \* flight analyses (loadMilitary / loadIntelligenceSignals)
    emitted           \* the addToSignalHistory calls, in order

sigVars == <<learningMode, toggles, geoIndex, seenGeoAlerts, trending, passPc,
             flightRuns, emitted>>

\* PopulationExposurePanel and its module-level generative cache
VARIABLES
    expCache,         \* aiCache / aiCacheTimestamp of PopulationExposurePanel.ts
    expReq,           \* position of each setExposures call
    expPanel          \* what the panel shows

expVars == <<expCache, expReq, expPanel>>

\* loadNews: the chunked fan-out over the categories
VARIABLES
    categories,       \* number of categories with feeds (0: loadNews not called)
    chunkAt,          \* the loop index i of loadNews
    catPc             \* each category's loadNewsCategory promise

chunkVars == <<categories, chunkAt, catPc>>

\* one getter of a generative service and its provider chain
VARIABLES
    genKind,          \* the service: "market", "energy", "layers" or "panel"
    genPc,            \* "idle", the provider awaited ("xai", "openai"), or "done"
    genTimer,         \* the abort timer of the provider call under way
    genLog,           \* what each provider of the current call answered
    genCache,         \* the domain's cache entry
    genAtCall,        \* the cache entry as the current call found it
    genRet,           \* what the getter's promise settled with
    genCalls          \* getter calls so far

genVars == <<genKind, genPc, genTimer, genLog, genCache, genAtCall, genRet, genCalls>>

\* the datasets held on the context (ctx.intelligenceCache, ctx.cyberThreatsCache)
VARIABLES
    ctxWrittenAt,     \* when each held dataset was assigned (-1: not set); the
                      \* code keeps no such time, the model does to tell the age
    ctxPc,            \* each loader: "idle" or "fetching"
    ctxShown          \* what each loader last put on the map, and how old it was

ctxVars == <<ctxWrittenAt, ctxPc, ctxShown>>

\* one load with a retry policy: the commodities of loadMarkets, or the UCDP
\* events of loadIntelligenceSignals
VARIABLES
    rtKind,           \* "none", "commodities" or "ucdp"
    rtPc,             \* "idle", the await the load is at, or "done"
    rtAttempts,       \* fetch attempts started by this load
    rtOkAt,           \* number of the attempt that succeeded (0: none)
    rtDue,            \* due time of the backoff timer
    rtLastEnd,        \* when the last attempt settled
    rtGaps,           \* time from each failed attempt's end to the next one's start
    rtStocks,         \* outcome of the stocks fetch of loadMarkets
    rtAI,             \* outcome of the generative market fallback
    rtPanel           \* last call this load made on the commodities panel

retryVars == <<rtKind, rtPc, rtAttempts, rtOkAt, rtDue, rtLastEnd, rtGaps, rtStocks,
               rtAI, rtPanel>>

\* the map flashes of flashMapForNews
VARIABLES
    flashReady,       \* ctx.map is set and initialLoadComplete
    mapNewsFlash,     \* getAiFlowSettings().mapNewsFlash
    mapFlashCache,    \* this.mapFlashCache: cache key -> time of the flash
    flashLog,         \* the calls of map.flashLocation so far: key and time
    flashSkips,       \* items passed over because of the cooldown
    flashCalls        \* calls of flashMapForNews so far

flashVars == <<flashReady, mapNewsFlash, mapFlashCache, flashLog, flashSkips, flashCalls>>

VARIABLES
    \* ---- waitForAisData ----
    aisPc,            \* "idle" (not called), "scheduled" (setTimeout pending), "done"
    aisAttempts,      \* the closure's `attempts`
    aisDue,           \* the time the pending setTimeout(checkData, 1000) is due
    aisLastCheck,     \* the time of the latest getAisStatus call (0: none yet)
    aisGaps,          \* the delays seen between two successive getAisStatus calls
    aisLoads,         \* the attempts at which loadAisSignals was called
    aisSeen,          \* the attempts whose status had vessels or a connection
    aisLayer,         \* what the map was last told about layer 'ais'
    aisFeed           \* statusPanel feed 'Shipping': "none" or "Connection timeout"

aisVars == <<aisPc, aisAttempts, aisDue, aisLastCheck, aisGaps, aisLoads, aisSeen,
             aisLayer, aisFeed>>

vars == <<schedVars, clockVars, cacheVars, newsVars, sigVars, expVars, chunkVars,
          genVars, ctxVars, retryVars, flashVars, aisVars>>

(***************************************************************************)
(* Layers, tasks and configurations.                                       *)
(***************************************************************************)
\* the map layers ensureAllLayersPopulated looks after
Domains == {"protests", "weather", "military", "cyberThreats", "outages",
            "flights", "hunger", "naturalResources", "fires"}

\* the arrays getAI*() of layer-ai-fallback read from the cached payload
AIDomains == {"protests", "weather", "military", "cyberThreats", "hunger",
              "naturalResources"}

\* payloads a provider may return, as the set of arrays that are non-empty
AIPayloads == { {}, AIDomains }

\* result of one fetchAllLayerData call: null, or the payload's non-empty arrays
AIFail == [ok |-> FALSE, arrays |-> {}]
AIOk(p) == [ok |-> TRUE, arrays |-> p]

\* outcome of an upstream fetch: a non-empty list, an empty list, an exception
FetchOutcomes == {"data", "empty", "throw"}

\* runs explored: site variant, enabled map layers, VITE_ENABLE_CYBER_LAYER
Configs ==
    { [variant |-> "full",    layers |-> {"outages"},                   cyber |-> FALSE],
      [variant |-> "finance", layers |-> {"flights", "hunger"},         cyber |-> FALSE],
      [variant |-> "tech",    layers |-> {"cyberThreats", "weather"},   cyber |-> TRUE],
      [variant |-> "finance", layers |-> {"protests", "military"},      cyber |-> FALSE],
      [variant |-> "happy",   layers |-> {"naturalResources", "fires"}, cyber |-> FALSE] }

ml(d) == d \in cfg.layers

\* the task list loadAllData builds, in order (the tasks that touch no
\* modelled layer are represented by 'giving', whose operation can throw)
Tasks ==
    <<"giving">>
    \o (IF cfg.variant = "full" THEN <<"intelligence", "firms">> ELSE <<>>)
    \o (IF cfg.variant # "happy" /\ ml("weather") THEN <<"weather">> ELSE <<>>)
    \o (IF cfg.variant # "happy" /\ ml("flights") THEN <<"flights">> ELSE <<>>)
    \o (IF cfg.variant # "happy" /\ ml("cyberThreats") THEN <<"cyberThreats">> ELSE <<>>)
    \o (IF ml("hunger") THEN <<"hunger">> ELSE <<>>)
    \o (IF ml("naturalResources") THEN <<"naturalResources">> ELSE <<>>)

TaskNames == {"giving", "intelligence", "firms", "weather", "flights",
              "cyberThreats", "hunger", "naturalResources"}

\* layers loadDataForLayer switches on (those that reach a modelled loader)
LayerNames == Domains

Range(s) == { s[i] : i \in DOMAIN s }

(***************************************************************************)
(* Render sink: map.setX(data) and map.setLayerReady(layer, ready).         *)
(***************************************************************************)
Put(l, d, kind, rdy) == [l EXCEPT ![d] = [data |-> kind, ready |-> rdy]]
PutData(l, d, kind) == [l EXCEPT ![d].data = kind]
PutReady(l, d, rdy) == [l EXCEPT ![d].ready = rdy]

\* loadFallbackWeather, loadFallbackProtests, ... : the embedded dataset
LoadFallback(l, d) == Put(l, d, "static", TRUE)

\* a fetched list shown on the map: "live" when non-empty, "empty" when []
Shown(o) == IF o = "data" THEN "live" ELSE "empty"

(***************************************************************************)
(* The state the loaders read and write, as one record, so that a handler  *)
(* that runs several of them in a row can be composed.                     *)
(***************************************************************************)
World == [layer |-> layer, intel |-> intelCache, cyber |-> cyberCache,
          ai |-> aiLayerCache, fresh |-> aiLayerFresh, liveOk |-> liveOk]

\* bookkeeping: the upstream of layer d answered (o is not an exception)
NoteLive(w, d, o) ==
    [w EXCEPT !.liveOk = IF o = "throw" THEN @ ELSE @ \cup {d}]

\* fetchAllLayerData: the cached payload while it is fresh, else the result
\* of the provider chain (null on failure), which is cached when it parses
AIChoices(w) ==
    IF w.ai.has /\ w.fresh THEN {AIOk(w.ai.arrays)}
    ELSE {AIFail} \cup {AIOk(p) : p \in AIPayloads}

FetchAllLayerData(w, r) ==
    IF w.ai.has /\ w.fresh THEN w
    ELSE IF r.ok THEN [w EXCEPT !.ai = [has |-> TRUE, arrays |-> r.arrays],
                                !.fresh = TRUE]
    ELSE w

\* getAIProtests() ... getAINaturalResources(): data?.x ?? [] is non-empty
GetAI(r, d) == r.ok /\ d \in r.arrays

\* loadWeatherAlerts / loadFlightDelays after the await of the fetch
LoadWithInlineFallback(w, d, o) ==
    LET w1 == NoteLive(w, d, o) IN
    IF o = "data" THEN [w1 EXCEPT !.layer = Put(@, d, "live", TRUE)]
    ELSE [w1 EXCEPT !.layer = LoadFallback(@, d)]

\* variant of loadWeatherAlerts that shows an empty answer as it came
LoadWeatherAlertsShowsEmpty(w, o) ==
    IF o = "empty" THEN [w EXCEPT !.layer = Put(@, "weather", "empty", TRUE)]
    ELSE LoadWithInlineFallback(w, "weather", o)

LoadWeatherAlerts(w, o) == LoadWithInlineFallback(w, "weather", o)

\* loadFallbackWeather: the embedded alerts w-1 .. w-8
FallbackWeatherAlerts == 8

\* the ids of the alerts the map shows for a weather dataset of that kind
\* (0 stands for the alerts of a non-empty upstream answer)
WeatherAlertIds(kind) ==
    CASE kind = "static" -> 1..FallbackWeatherAlerts
      [] kind = "live"   -> {0}
      [] OTHER           -> {}
LoadFlightDelays(w, o) == LoadWithInlineFallback(w, "flights", o)

\* variant of the generative tier that shows whatever the provider returned
LoadFromAINoStatic(w, d, r) ==
    LET w1 == FetchAllLayerData(w, r) IN
    IF GetAI(r, d) THEN [w1 EXCEPT !.layer = Put(@, d, "ai", TRUE)]
    ELSE [w1 EXCEPT !.layer = Put(@, d, "empty", FALSE)]

\* loadHungerData / loadNaturalResources after the await of getAI*()
LoadFromAI(w, d, r) ==
    LET w1 == FetchAllLayerData(w, r) IN
    IF GetAI(r, d) THEN [w1 EXCEPT !.layer = Put(@, d, "ai", TRUE)]
    ELSE [w1 EXCEPT !.layer = LoadFallback(@, d)]

LoadHungerData(w, r) == LoadFromAI(w, "hunger", r)
LoadNaturalResources(w, r) == LoadFromAI(w, "naturalResources", r)

\* loadCyberThreats: the part before the await; TRUE when it returns there
CyberThreatsSync(w) == ~cfg.cyber \/ w.cyber # "unset"
LoadCyberThreatsSync(w) ==
    IF ~cfg.cyber THEN [w EXCEPT !.layer = LoadFallback(@, "cyberThreats")]
    ELSE [w EXCEPT !.layer = Put(@, "cyberThreats", Shown(w.cyber), w.cyber = "data")]
\* loadCyberThreats after the await of fetchCyberThreats
LoadCyberThreats(w, o) ==
    LET w1 == NoteLive(w, "cyberThreats", o) IN
    IF o = "throw" THEN [w1 EXCEPT !.layer = LoadFallback(@, "cyberThreats")]
    ELSE [w1 EXCEPT !.cyber = o,
                    !.layer = Put(@, "cyberThreats", Shown(o), o = "data")]

\* loadOutages / loadProtests: served from ctx.intelligenceCache when set
CachedSync(w, d) == w.intel[d] # "unset"
LoadCachedSync(w, d) ==
    [w EXCEPT !.layer = Put(@, d, Shown(w.intel[d]), w.intel[d] = "data")]
LoadCachedFetch(w, d, o) ==
    LET w1 == NoteLive(w, d, o) IN
    IF o = "throw" THEN [w1 EXCEPT !.layer = LoadFallback(@, d)]
    ELSE [w1 EXCEPT !.intel[d] = o, !.layer = Put(@, d, Shown(o), o = "data")]

LoadOutages(w, o) == LoadCachedFetch(w, "outages", o)
LoadProtests(w, o) == LoadCachedFetch(w, "protests", o)

\* loadMilitary after the await: no fallback in its catch, ready := false
LoadMilitary(w, o) ==
    LET w1 == NoteLive(w, "military", o) IN
    IF o = "throw" THEN [w1 EXCEPT !.layer = PutReady(@, "military", FALSE)]
    ELSE [w1 EXCEPT !.intel["military"] = o,
                    !.layer = Put(@, "military", Shown(o), o = "data")]

\* loadFirmsData after the await: setFires only when totalCount > 0
LoadFirmsData(w, o) ==
    LET w1 == NoteLive(w, "fires", o) IN
    IF o = "data" THEN [w1 EXCEPT !.layer = PutData(@, "fires", "live")]
    ELSE w1

\* the outages, protests and military sub-tasks of loadIntelligenceSignals
IntelOutages(w, o) ==
    LET w1 == NoteLive(w, "outages", o) IN
    IF o = "throw" THEN w1
    ELSE [w1 EXCEPT !.intel["outages"] = o,
                    !.layer = IF ml("outages")
                              THEN Put(@, "outages", Shown(o), o = "data") ELSE @]
IntelProtests(w, o) ==
    LET w1 == NoteLive(w, "protests", o) IN
    IF o = "throw" THEN w1
    ELSE [w1 EXCEPT !.intel["protests"] = o,
                    !.layer = IF ml("protests")
                              THEN Put(@, "protests", Shown(o), o = "data") ELSE @]
IntelMilitary(w, o) ==
    LET w1 == NoteLive(w, "military", o) IN
    IF o = "throw" THEN w1
    ELSE [w1 EXCEPT !.intel["military"] = o,
                    !.layer = IF ml("military")
                              THEN PutData(@, "military", Shown(o)) ELSE @]

\* the layer an awaited fetch feeds
LayerOf(op, p) ==
    CASE op = "intelligence" -> p
      [] op = "firms"        -> "fires"
      [] OTHER               -> op

\* the outcomes explored for the fetch p of operation op: every outcome for a
\* layer that is on; fetchGivingSummary and fetchPositiveGeoEvents (awaited
\* outside any try block) either answer or throw; the upstream
\* of a layer that is off answers with data
OutcomesOf(op, p) ==
    IF op \in {"giving", "positiveEvents"} THEN {"data", "throw"}
    ELSE IF ml(LayerOf(op, p)) THEN FetchOutcomes
    ELSE {"data"}

\* the continuation of operation `op` when its awaited fetch `p` settles with o
FetchDone(w, op, p, o) ==
    CASE op = "weather"      -> LoadWeatherAlerts(w, o)
      [] op = "flights"      -> LoadFlightDelays(w, o)
      [] op = "cyberThreats" -> LoadCyberThreats(w, o)
      [] op = "outages"      -> LoadOutages(w, o)
      [] op = "protests"     -> LoadProtests(w, o)
      [] op = "military"     -> LoadMilitary(w, o)
      [] op = "firms"        -> LoadFirmsData(w, o)
      [] op = "intelligence" /\ p = "outages"  -> IntelOutages(w, o)
      [] op = "intelligence" /\ p = "protests" -> IntelProtests(w, o)
      [] op = "intelligence" /\ p = "military" -> IntelMilitary(w, o)
      [] OTHER -> w   \* 'giving', 'positiveEvents': no layer of the ladder

(***************************************************************************)
(* ensureAllLayersPopulated.  Each operator is the code from one block of  *)
(* the function up to its next await: it yields the position of that await *)
(* (or "done") and the state left by the synchronous fallbacks passed.     *)
(***************************************************************************)
SweepFires(w) ==
    [pc |-> "done",
     w  |-> IF ml("fires") THEN [w EXCEPT !.layer = LoadFallback(@, "fires")] ELSE w]

SweepNaturalResources(w) ==
    IF ml("naturalResources") THEN [pc |-> "naturalResources", w |-> w]
    ELSE SweepFires(w)

SweepHunger(w) ==
    IF ml("hunger") THEN [pc |-> "hunger", w |-> w]
    ELSE SweepNaturalResources(w)

SweepOutagesFlights(w) ==
    LET w1 == IF ml("outages") /\ w.intel["outages"] = "unset"
              THEN [w EXCEPT !.layer = LoadFallback(@, "outages")] ELSE w
        w2 == IF ml("flights")
              THEN [w1 EXCEPT !.layer = LoadFallback(@, "flights")] ELSE w1
    IN SweepHunger(w2)

SweepCyber(w) ==
    IF ml("cyberThreats") /\ w.cyber = "unset" THEN [pc |-> "cyberThreats", w |-> w]
    ELSE SweepOutagesFlights(w)

SweepMilitary(w) ==
    IF ml("military") /\ w.intel["military"] = "unset" THEN [pc |-> "military", w |-> w]
    ELSE SweepCyber(w)

SweepWeather(w) ==
    IF ml("weather") THEN [pc |-> "weather", w |-> w]
    ELSE SweepMilitary(w)

SweepProtests(w) ==
    IF ml("protests") /\ w.intel["protests"] = "unset" THEN [pc |-> "protests", w |-> w]
    ELSE SweepWeather(w)

\* the code after the await at position pc
SweepAfter(pc, w) ==
    CASE pc = "protests"         -> SweepWeather(w)
      [] pc = "weather"          -> SweepMilitary(w)
      [] pc = "military"         -> SweepCyber(w)
      [] pc = "cyberThreats"     -> SweepOutagesFlights(w)
      [] pc = "hunger"           -> SweepNaturalResources(w)
      [] pc = "naturalResources" -> SweepFires(w)

(***************************************************************************)
(* runGuarded (the closure of loadAllData).                                *)
(***************************************************************************)
\* variants of the guard with one line changed, to show what each claim rests on
RunGuardedAdmitsNoDedup(name) == ~isDestroyed
RunGuardedReleaseOnSuccess(set, name, threw) == IF threw THEN set ELSE set \ {name}
RunGuardedRethrows(threw) == threw
RunGuardedAdmitsDestroyed(name) == name \notin inFlight

\* line 150: the call goes on only if not destroyed and the name is free
RunGuardedAdmits(name) == ~isDestroyed /\ name \notin inFlight

\* line 154-155: the catch swallows the failure; it is logged unless destroyed
RunGuardedLogs(threw) == threw /\ ~isDestroyed
RunGuardedRejects(threw) == FALSE

\* line 156-158: the finally releases the name on every exit
RunGuardedRelease(set, name, threw) == set \ {name}

\* variant of loadDataForLayer's guard that does not consult the in-flight set
LayerAdmitsNoDedup(l) == ~isDestroyed

\* loadDataForLayer line 381 and its finally, lines 439-442
LayerAdmits(l) == ~isDestroyed /\ l \notin inFlight
LayerRelease(set, l) == set \ {l}

\* lines 384, 439-442: try/finally without a catch: a failure of the loader
\* rejects the promise of loadDataForLayer
LayerRejects(threw) == threw

\* layers loadDataForLayer serves outside the fallback ladder, explored where
\* the variant shows them
IntelLayers == {"ucdpEvents", "displacement", "climate"}
ExtraLayers ==
    CASE cfg.variant = "happy" -> {"positiveEvents"}
      [] cfg.variant = "full"  -> IntelLayers
      [] OTHER                 -> {}

(***************************************************************************)
(* Executing operations.                                                   *)
(***************************************************************************)
\* the loader behind a task or layer name: 'firms' and layer 'fires' both run
\* loadFirmsData; 'intelligence' and the layers 'ucdpEvents', 'displacement'
\* and 'climate' all run loadIntelligenceSignals
LoaderOf(name) ==
    CASE name = "fires"       -> "firms"
      [] name \in IntelLayers -> "intelligence"
      [] OTHER                -> name

\* the loader an execution runs
OpOf(e) == LoaderOf(e.name)

\* what an operation awaits first ("return": it finished before any await)
StartPend(op, w) ==
    CASE op = "intelligence" -> {"outages", "protests", "military"}
      [] op = "cyberThreats" -> IF CyberThreatsSync(w) THEN {"return"} ELSE {"fetch"}
      [] op \in {"outages", "protests", "military"}
                             -> IF CachedSync(w, op) THEN {"return"} ELSE {"fetch"}
      [] op \in {"hunger", "naturalResources"} -> {"ai"}
      [] OTHER -> {"fetch"}

\* the synchronous part of an operation that starts now
StartSync(op, w) ==
    CASE op = "cyberThreats" /\ CyberThreatsSync(w) -> LoadCyberThreatsSync(w)
      [] op \in {"outages", "protests", "military"} /\ CachedSync(w, op)
                                                    -> LoadCachedSync(w, op)
      [] OTHER -> w

SetWorld(w) ==
    /\ layer' = w.layer
    /\ intelCache' = w.intel
    /\ cyberCache' = w.cyber
    /\ aiLayerCache' = w.ai
    /\ aiLayerFresh' = w.fresh
    /\ liveOk' = w.liveOk

worldVars == <<layer, intelCache, cyberCache, aiLayerCache, aiLayerFresh, liveOk>>

\* the execution e settles: runGuarded's catch/finally, or the finally of
\* loadDataForLayer
Settle(e, threw) ==
    /\ running' = running (-) SetToBag({e})
    /\ IF e.via = "guarded"
       THEN /\ inFlight' = RunGuardedRelease(inFlight, e.name, threw)
            /\ caught' = IF threw THEN caught \cup {e.name} ELSE caught
            /\ logged' = IF RunGuardedLogs(threw) THEN logged \cup {e.name} ELSE logged
            /\ rejected' = IF RunGuardedRejects(threw) THEN rejected \cup {e.name}
                           ELSE rejected
            /\ UNCHANGED layerLoading
       ELSE /\ inFlight' = LayerRelease(inFlight, e.name)
            /\ layerLoading' = layerLoading \ {e.name}
            /\ rejected' = IF LayerRejects(threw) THEN rejected \cup {e.name}
                           ELSE rejected
            /\ UNCHANGED <<caught, logged>>

\* the execution e goes on awaiting `pend`
Continue(e, pend) ==
    /\ running' = (running (-) SetToBag({e})) (+) SetToBag({[e EXCEPT !.pend = pend]})
    /\ UNCHANGED <<inFlight, caught, logged, rejected, layerLoading>>

(***************************************************************************)
(* Actions of the scheduler and the ladder.                                *)
(***************************************************************************)
\* loadAllData up to its await Promise.allSettled: every task of the list is
\* passed to runGuarded, which runs its operation up to the first await
LoadAllData ==
    /\ cycles < MaxCycles
    /\ LET names   == Range(Tasks)
           started == { n \in names : RunGuardedAdmits(n) }
           w1      == IF "cyberThreats" \in started
                      THEN StartSync("cyberThreats", World) ELSE World
           execs   == { [name |-> n, via |-> "guarded", cyc |-> cycles + 1,
                         pend |-> StartPend(n, World)] : n \in started }
       IN /\ running' = running (+) SetToBag(execs)
          /\ inFlight' = inFlight \cup started
          /\ dupCalls' = dupCalls \cup { n \in names : ~isDestroyed /\ n \in inFlight }
          /\ SetWorld(w1)
    /\ cycles' = cycles + 1
    /\ UNCHANGED <<cfg, isDestroyed, joined, layerLoads, sweepTimers, sweepPc,
                   sweepsDone, layerLoading, caught, logged, rejected>>

\* the join of load cycle c returns: updateSearchIndex, then the sweep timer
CycleJoin(c) ==
    /\ c \in 1..cycles
    /\ c \notin joined
    /\ \A e \in BagToSet(running) : ~(e.via = "guarded" /\ e.cyc = c)
    /\ joined' = joined \cup {c}
    /\ sweepTimers' = IF cfg.variant # "happy" THEN sweepTimers + 1 ELSE sweepTimers
    /\ UNCHANGED <<cfg, isDestroyed, inFlight, running, cycles, layerLoads, sweepPc,
                   sweepsDone, layerLoading, caught, logged, rejected, dupCalls,
                   worldVars>>

\* loadDataForLayer(l) up to its first await
LoadDataForLayer(l) ==
    /\ layerLoads < MaxLayerLoads
    /\ layerLoads' = layerLoads + 1
    /\ IF LayerAdmits(l)
       THEN /\ inFlight' = inFlight \cup {l}
            /\ layerLoading' = layerLoading \cup {l}
            /\ LET op == LoaderOf(l)
               IN /\ running' = running (+) SetToBag({[name |-> l, via |-> "layer",
                                     cyc |-> 0, pend |-> StartPend(op, World)]})
                  /\ SetWorld(StartSync(op, World))
       ELSE UNCHANGED <<inFlight, layerLoading, running, worldVars>>
    /\ UNCHANGED <<cfg, isDestroyed, cycles, joined, sweepTimers, sweepPc, sweepsDone,
                   caught, logged, rejected, dupCalls>>

\* an awaited upstream fetch of execution e settles with outcome o
FetchReturns(e, p, o) ==
    /\ BagIn(e, running)
    /\ p \in e.pend \ {"ai", "return"}
    /\ o \in OutcomesOf(OpOf(e), p)
    /\ SetWorld(FetchDone(World, OpOf(e), p, o))
    /\ LET rest == e.pend \ {p}
       IN IF rest = {}
          THEN Settle(e, OpOf(e) \in {"giving", "positiveEvents"} /\ o = "throw")
          ELSE Continue(e, rest)
    /\ UNCHANGED <<cfg, isDestroyed, cycles, joined, layerLoads, sweepTimers, sweepPc,
                   sweepsDone, dupCalls>>

\* the getAIHungerZones / getAINaturalResources call of execution e settles
AIReturns(e, r) ==
    /\ BagIn(e, running)
    /\ e.pend = {"ai"}
    /\ r \in AIChoices(World)
    /\ SetWorld(LoadFromAI(World, e.name, r))
    /\ Settle(e, FALSE)
    /\ UNCHANGED <<cfg, isDestroyed, cycles, joined, layerLoads, sweepTimers, sweepPc,
                   sweepsDone, dupCalls>>

\* an operation that took its synchronous path returns
OpReturns(e) ==
    /\ BagIn(e, running)
    /\ e.pend = {"return"}
    /\ Settle(e, FALSE)
    /\ UNCHANGED <<cfg, isDestroyed, cycles, joined, layerLoads, sweepTimers, sweepPc,
                   sweepsDone, dupCalls, worldVars>>

\* the timer of loadAllData fires: ensureAllLayersPopulated up to its first await
SweepStart ==
    /\ sweepTimers > 0
    /\ sweepPc = "idle"
    /\ sweepTimers' = sweepTimers - 1
    /\ LET s == SweepProtests(World)
       IN /\ SetWorld(s.w)
          /\ sweepPc' = IF s.pc = "done" THEN "idle" ELSE s.pc
          /\ sweepsDone' = IF s.pc = "done" THEN sweepsDone + 1 ELSE sweepsDone
    /\ UNCHANGED <<cfg, isDestroyed, inFlight, running, cycles, joined, layerLoads,
                   layerLoading, caught, logged, rejected, dupCalls>>

\* the generative call the sweep awaits settles with r
SweepResume(r) ==
    /\ sweepPc # "idle"
    /\ r \in AIChoices(World)
    /\ LET s == SweepAfter(sweepPc, LoadFromAI(World, sweepPc, r))
       IN /\ SetWorld(s.w)
          /\ sweepPc' = IF s.pc = "done" THEN "idle" ELSE s.pc
          /\ sweepsDone' = IF s.pc = "done" THEN sweepsDone + 1 ELSE sweepsDone
    /\ UNCHANGED <<cfg, isDestroyed, inFlight, running, cycles, joined, layerLoads,
                   sweepTimers, layerLoading, caught, logged, rejected, dupCalls>>

\* the application shuts down: ctx.isDestroyed is set
Destroy ==
    /\ ~isDestroyed
    /\ isDestroyed' = TRUE
    /\ UNCHANGED <<cfg, inFlight, running, cycles, joined, layerLoads, sweepTimers,
                   sweepPc, sweepsDone, layerLoading, caught, logged, rejected,
                   dupCalls, worldVars>>

\* time passes: the cached generative payload becomes older than CACHE_TTL
LayerCacheExpires ==
    /\ aiLayerCache.has /\ aiLayerFresh
    /\ aiLayerFresh' = FALSE
    /\ UNCHANGED <<cfg, isDestroyed, inFlight, running, cycles, joined, layerLoads,
                   sweepTimers, sweepPc, sweepsDone, layer, layerLoading, intelCache,
                   cyberCache, aiLayerCache, caught, logged, rejected, dupCalls,
                   liveOk>>

AIResults == {AIFail} \cup {AIOk(p) : p \in AIPayloads}

otherThanSched == <<clockVars, cacheVars, newsVars, sigVars, expVars, chunkVars, genVars, ctxVars, retryVars, flashVars, aisVars>>

Next ==
    \/ LoadAllData /\ UNCHANGED otherThanSched
    \/ \E c \in 1..MaxCycles : CycleJoin(c) /\ UNCHANGED otherThanSched
    \/ \E l \in cfg.layers \cup ExtraLayers :
          LoadDataForLayer(l) /\ UNCHANGED otherThanSched
    \/ \E e \in BagToSet(running) : \E p \in e.pend, o \in FetchOutcomes :
          FetchReturns(e, p, o) /\ UNCHANGED otherThanSched
    \/ \E e \in BagToSet(running) : \E r \in AIResults :
          AIReturns(e, r) /\ UNCHANGED otherThanSched
    \/ \E e \in BagToSet(running) : OpReturns(e) /\ UNCHANGED otherThanSched
    \/ SweepStart /\ UNCHANGED otherThanSched
    \/ \E r \in AIResults : SweepResume(r) /\ UNCHANGED otherThanSched
    \/ Destroy /\ UNCHANGED otherThanSched
    \/ LayerCacheExpires /\ UNCHANGED otherThanSched

(***************************************************************************)
(* market-ai-fallback: fetchAIMarketData behind getAIStocks, getAICrypto,  *)
(* ...: one cached payload, one shared pending promise, a two-provider     *)
(* chain (xAI, then OpenAI).                                               *)
(***************************************************************************)
CACHE_TTL_MS == 10 * 60 * 1000

\* clock steps explored: the 2 s between two calls, and the rest of the TTL
TickSizes == {2000, CACHE_TTL_MS - 2000}

\* variants of the validity test: one still accepts an entry aged exactly
\* TTL, one only accepts an entry younger than 2 s
IsCacheValidInclusive == aiCache.has /\ now - aiCache.timestamp <= CACHE_TTL_MS
IsCacheValidTwoSeconds == aiCache.has /\ now - aiCache.timestamp < 2000

\* isCacheValid()
IsCacheValid == aiCache.has /\ now - aiCache.timestamp < CACHE_TTL_MS

\* variant of the dedup test that never sees the pending promise
FetchPendingIgnored == FALSE

\* line 201: if (fetchInProgress)
FetchPending == fetchInProgress # 0

\* the record of provider-chain evaluation id (res 0 is null: getAICrypto gives [])
Chain(id) == evals[id]

\* a caller whose awaited promise has settled and whose continuation is queued
Resumable(c) == callers[c].pc = "await" /\ Chain(callers[c].h).st = "done"

\* lines 234-238: the creator's `await fetchInProgress` is the first reaction
\* registered on the promise, so its continuation and finally are queued by
\* the settlement itself and run in the same microtask checkpoint
FinallyQueued == \E c \in DOMAIN callers : callers[c].creator /\ Resumable(c)

\* fetchAIMarketData called by c, up to its first await; calls come from
\* event handlers, timers and later continuations, none of which runs
\* between a settlement and the creator's queued finally
FetchAIMarketData(c) ==
    /\ calls < MaxCalls
    /\ ~FinallyQueued
    /\ callers[c].pc \in {"idle", "done"}
    /\ calls' = calls + 1
    /\ LET me == [pc |-> "done", h |-> 0, creator |-> FALSE, res |-> 0,
                  sawFresh |-> aiCache.has /\ now - aiCache.timestamp < CACHE_TTL_MS,
                  sawStale |-> aiCache.has /\ now - aiCache.timestamp >= CACHE_TTL_MS,
                  sawVal |-> aiCache.val, sawStamp |-> aiCache.timestamp, at |-> now]
       IN IF IsCacheValid
          THEN /\ callers' = [callers EXCEPT ![c] = [me EXCEPT !.res = aiCache.val]]
               /\ UNCHANGED <<fetchInProgress, evals, httpCalls>>
          ELSE IF FetchPending
          THEN /\ callers' = [callers EXCEPT ![c] =
                                 [me EXCEPT !.pc = "await", !.h = fetchInProgress]]
               /\ UNCHANGED <<fetchInProgress, evals, httpCalls>>
          ELSE LET id == Len(evals) + 1
               IN /\ evals' = Append(evals, [st |-> IF xaiAvail THEN "xai" ELSE "openai",
                                             res |-> 0, start |-> now])
                  /\ fetchInProgress' = id
                  /\ httpCalls' = httpCalls + 1
                  /\ callers' = [callers EXCEPT ![c] =
                                   [me EXCEPT !.pc = "await", !.h = id, !.creator = TRUE]]
    /\ UNCHANGED <<now, ticks, xaiAvail, aiCache>>

\* the provider awaited by evaluation id answers; ok: parseAIResponse accepts
ProviderSettles(id, ok) ==
    /\ id \in DOMAIN evals
    /\ Chain(id).st \in {"xai", "openai"}
    /\ IF ok
       THEN /\ aiCache' = [has |-> TRUE, timestamp |-> now, val |-> id]
            /\ evals' = [evals EXCEPT ![id].st = "done", ![id].res = id]
            /\ UNCHANGED httpCalls
       ELSE IF Chain(id).st = "xai"
       THEN /\ evals' = [evals EXCEPT ![id].st = "openai"]
            /\ httpCalls' = httpCalls + 1
            /\ UNCHANGED aiCache
       ELSE /\ evals' = [evals EXCEPT ![id].st = "done", ![id].res = 0]
            /\ UNCHANGED <<aiCache, httpCalls>>
    /\ UNCHANGED <<now, ticks, xaiAvail, fetchInProgress, callers, calls>>

\* variant of the finally block that leaves the handle in place
HandleKept(c) == fetchInProgress

\* lines 236-238: finally { fetchInProgress = null }, run by the call that
\* created the promise (a joining call returned at line 201, outside the try)
HandleAfterFinally(c) == IF callers[c].creator THEN 0 ELSE fetchInProgress

\* the continuation of caller c after its await; the creator's finally
Resume(c) ==
    /\ Resumable(c)
    /\ callers' = [callers EXCEPT ![c].pc = "done", ![c].res = Chain(callers[c].h).res]
    /\ fetchInProgress' = HandleAfterFinally(c)
    /\ UNCHANGED <<now, ticks, xaiAvail, aiCache, evals, calls, httpCalls>>

\* the clock advances by d ms; queued continuations run first, and a provider
\* request (aborted after 15 s) outlives only the short step
Tick(d) ==
    /\ ticks < MaxTicks
    /\ \A c \in DOMAIN callers : ~Resumable(c)
    /\ (\E id \in DOMAIN evals : Chain(id).st # "done") => d < 15000
    /\ now' = now + d
    /\ ticks' = ticks + 1
    /\ UNCHANGED <<xaiAvail, aiCache, fetchInProgress, evals, callers, calls, httpCalls>>

(***************************************************************************)
(* loadNewsCategory for one category.  fetchCategoryFeeds is the imported  *)
(* fetcher: it requests every feed it is given, calls onBatch zero or more *)
(* times, then resolves with the item list or throws.  An item list is     *)
(* [k, len]: k the batch number (0 for the final list), len 0 or 1.        *)
(***************************************************************************)
Feeds == 1..MaxFeeds
renderIntervalMs == 100
NewsTickSizes == {50, 100}

EmptyList == [k |-> 0, len |-> 0]
\* no entry for the category in ctx.newsByCategory
Absent == [k |-> -1, len |-> 0]
FinalLists == {EmptyList, [k |-> 0, len |-> 1]}
NoStatus == [status |-> "none", itemCount |-> 0]

\* variant of the filter that ignores the disabled-sources set
EnabledFeedsUnfiltered == Feeds

\* line 567: the feeds whose source name is not disabled
EnabledFeeds == Feeds \ disabledSources

\* renderNewsForCategory(category, items), called at a time the call of
\* loadNewsCategory has / has not returned
RenderNewsForCategory(items) ==
    /\ newsByCategory' = items
    /\ IF hasPanel
       THEN /\ panelMsg' = "news"
            /\ renders' = Append(renders, [at |-> now, items |-> items,
                                           afterReturn |-> newsPc = "returned"])
       ELSE UNCHANGED <<panelMsg, renders>>

\* loadNewsCategory up to the await of fetchCategoryFeeds, or to its return
\* when every feed of the category is disabled
LoadNewsCategory ==
    /\ newsPc = "idle"
    /\ IF EnabledFeeds = {}
       THEN /\ newsByCategory' = Absent
            /\ panelMsg' = IF hasPanel THEN "allSourcesDisabled" ELSE panelMsg
            /\ feedStatus' = [status |-> "ok", itemCount |-> 0]
            /\ ret' = EmptyList
            /\ newsPc' = "returned"
            /\ UNCHANGED <<fetchedFeeds, netCalls>>
       ELSE /\ fetchedFeeds' = EnabledFeeds
            /\ netCalls' = netCalls + Cardinality(EnabledFeeds)
            /\ newsPc' = "fetching"
            /\ UNCHANGED <<newsByCategory, panelMsg, feedStatus, ret>>
    /\ UNCHANGED <<disabledSources, hasPanel, feedFailed, batches, lastRenderTime, renderTimeout,
                   pendingItems, renders, now, ticks>>

\* flushPendingRender with pendingItems set
FlushPendingRender ==
    /\ RenderNewsForCategory([k |-> pendingItems, len |-> 1])
    /\ pendingItems' = 0
    /\ lastRenderTime' = now

\* variant of the gate that lets every batch through at once
GateOpenAlways == TRUE

\* line 590: elapsed >= renderIntervalMs
GateOpen == now - lastRenderTime >= renderIntervalMs

\* variant of lines 615-617 that leaves the armed timer alone
TimeoutKept(t) == t

\* lines 615-617: clearTimeout(renderTimeout); renderTimeout = null
ClearRenderTimeout(t) == 0

\* onBatch(partialItems): scheduleRender
OnBatch ==
    /\ newsPc = "fetching"
    /\ batches < MaxBatches
    /\ batches' = batches + 1
    /\ IF ~hasPanel
       THEN UNCHANGED <<pendingItems, lastRenderTime, renderTimeout, newsByCategory,
                        panelMsg, renders>>
       ELSE IF GateOpen
       THEN /\ RenderNewsForCategory([k |-> batches + 1, len |-> 1])
            /\ pendingItems' = 0
            /\ lastRenderTime' = now
            /\ renderTimeout' = 0
       ELSE /\ pendingItems' = batches + 1
            /\ renderTimeout' = IF renderTimeout = 0
                                THEN now + (renderIntervalMs - (now - lastRenderTime))
                                ELSE renderTimeout
            /\ UNCHANGED <<lastRenderTime, newsByCategory, panelMsg, renders>>
    /\ UNCHANGED <<disabledSources, hasPanel, feedFailed, newsPc, fetchedFeeds, netCalls,
                   feedStatus, ret, now, ticks>>

\* the timer armed by scheduleRender fires
RenderTimerFires ==
    /\ renderTimeout # 0
    /\ now >= renderTimeout
    /\ renderTimeout' = 0
    /\ IF pendingItems # 0
       THEN FlushPendingRender
       ELSE UNCHANGED <<pendingItems, lastRenderTime, newsByCategory, panelMsg, renders>>
    /\ UNCHANGED <<disabledSources, hasPanel, feedFailed, newsPc, fetchedFeeds, netCalls, batches,
                   feedStatus, ret, now, ticks>>

\* lines 622-629: with zero items and a failed enabled feed the panel shows
\* 'no news available (<names> failed)', otherwise the rendered list
PanelAfterFetch(items, failed) ==
    IF items.len = 0 /\ failed THEN "fetchFailed" ELSE "news"

\* fetchCategoryFeeds resolves with `items`; failed: getFeedFailures() names
\* one of the enabled feeds.  Lines 613-628, up to the await of updateBaseline
\* (with a panel) or to the return (without).
NewsFetchResolves(items, failed) ==
    /\ newsPc = "fetching"
    /\ newsByCategory' = items
    /\ feedFailed' = failed
    /\ IF hasPanel
       THEN /\ renders' = Append(renders, [at |-> now, items |-> items,
                                           afterReturn |-> FALSE])
            /\ panelMsg' = PanelAfterFetch(items, failed)
            /\ renderTimeout' = ClearRenderTimeout(renderTimeout)
            /\ pendingItems' = IF renderTimeout # 0 /\ ClearRenderTimeout(renderTimeout) = 0
                               THEN 0 ELSE pendingItems
            /\ newsPc' = "baseline"
            /\ ret' = items
            /\ UNCHANGED feedStatus
       ELSE /\ feedStatus' = [status |-> "ok", itemCount |-> items.len]
            /\ ret' = items
            /\ newsPc' = "returned"
            /\ UNCHANGED <<renders, panelMsg, renderTimeout, pendingItems>>
    /\ UNCHANGED <<disabledSources, hasPanel, fetchedFeeds, netCalls, batches,
                   lastRenderTime, now, ticks>>

\* updateBaseline settles (its failure is caught): lines 637-643
BaselineSettles ==
    /\ newsPc = "baseline"
    /\ feedStatus' = [status |-> "ok", itemCount |-> ret.len]
    /\ newsPc' = "returned"
    /\ UNCHANGED <<disabledSources, hasPanel, feedFailed, fetchedFeeds, netCalls, batches,
                   lastRenderTime, renderTimeout, pendingItems, renders,
                   newsByCategory, panelMsg, ret, now, ticks>>

\* fetchCategoryFeeds throws: the catch of lines 644-652
NewsFetchThrows ==
    /\ newsPc = "fetching"
    /\ feedStatus' = [status |-> "error", itemCount |-> 0]
    /\ newsByCategory' = Absent
    /\ ret' = EmptyList
    /\ newsPc' = "returned"
    /\ UNCHANGED <<disabledSources, hasPanel, feedFailed, fetchedFeeds, netCalls, batches,
                   lastRenderTime, renderTimeout, pendingItems, renders, panelMsg,
                   now, ticks>>

\* the clock advances by d ms; a timer that is due fires first
NewsTick(d) ==
    /\ ticks < MaxTicks
    /\ renderTimeout = 0 \/ now < renderTimeout
    /\ now' = now + d
    /\ ticks' = ticks + 1
    /\ UNCHANGED newsVars

(***************************************************************************)
(* Signal emission: runCorrelationAnalysis (started fire-and-forget by     *)
(* loadNews, so passes overlap) and the flight analysis of loadMilitary    *)
(* and loadIntelligenceSignals, both gated by the learning-mode flag.      *)
(***************************************************************************)
ClusterKeys == {"geo1", "geo2"}
CorrelationSignals == { {}, {"corr"} }
FlightSignalSets == { {}, {"surge"}, {"surge", "foreign"} }

\* addToSignalHistory(signals), with the flag as it stood at the call
Emission(by, signals) == [by |-> by, signals |-> signals, learning |-> learningMode]

\* variant that hands detectGeoConvergence a fresh set on every pass
SeenGeoAlertsFresh == {}

\* line 2021: the set handed to detectGeoConvergence is ctx.seenGeoAlerts
SeenGeoAlertsArg == seenGeoAlerts

\* detectGeoConvergence(seen): the clusters of the index whose stable key is
\* not in seen; it records the keys it reports in seen
DetectGeoConvergence(seen) == geoIndex \ seen
SeenAfterDetect(seen) == seen \cup geoIndex

\* variant of the catch clause that rethrows
CorrelationRethrows(threw) == IF threw THEN "rejected" ELSE "resolved"

\* lines 2000, 2031-2033: try { ... } catch (error) { console.error(...) }
CorrelationSettles(threw) == "resolved"

\* void this.runCorrelationAnalysis(): up to the first await; clustering is
\* needed when latestClusters is empty and allNews is not
RunCorrelationAnalysis(p, needClusters) ==
    /\ passPc[p] = "idle"
    /\ passPc' = [passPc EXCEPT ![p] = IF needClusters THEN "clustering" ELSE "analyzing"]
    /\ UNCHANGED <<learningMode, toggles, geoIndex, seenGeoAlerts, trending,
                   flightRuns, emitted>>

\* lines 2001-2011: clusterNewsHybrid / clusterNews settles
ClusteringSettles(p, ok) ==
    /\ passPc[p] = "clustering"
    /\ passPc' = [passPc EXCEPT ![p] = IF ok THEN "analyzing" ELSE CorrelationSettles(TRUE)]
    /\ UNCHANGED <<learningMode, toggles, geoIndex, seenGeoAlerts, trending,
                   flightRuns, emitted>>

\* lines 2013-2033: analyzeCorrelations settles and the rest of the pass runs
\* to its end: geo-convergence (unless learning), drained keyword spikes,
\* then one addToSignalHistory call if there is anything to emit
AnalyzeCorrelationsSettles(p, signals, ok, sinkOk) ==
    /\ passPc[p] = "analyzing"
    /\ IF ~ok
       THEN /\ passPc' = [passPc EXCEPT ![p] = CorrelationSettles(TRUE)]
            /\ UNCHANGED <<seenGeoAlerts, trending, emitted>>
       ELSE LET geoSignals == IF ~learningMode
                              THEN DetectGeoConvergence(SeenGeoAlertsArg) ELSE {}
                allSignals == signals \cup geoSignals \cup trending
            IN  /\ seenGeoAlerts' = IF ~learningMode
                                    THEN SeenAfterDetect(SeenGeoAlertsArg)
                                    ELSE seenGeoAlerts
                /\ trending' = {}
                /\ emitted' = IF allSignals # {}
                              THEN Append(emitted, Emission("correlation", allSignals))
                              ELSE emitted
                /\ passPc' = [passPc EXCEPT ![p] =
                                  CorrelationSettles(allSignals # {} /\ ~sinkOk)]
    /\ UNCHANGED <<learningMode, toggles, geoIndex, flightRuns>>

\* lines 1153-1166 and 1757-1769: surge and foreign-presence signals of the
\* flights just fetched
AnalyzeFlights(alerts) ==
    /\ flightRuns < MaxFlightRuns
    /\ flightRuns' = flightRuns + 1
    /\ emitted' = IF ~learningMode /\ alerts # {}
                  THEN Append(emitted, Emission("flights", alerts))
                  ELSE emitted
    /\ UNCHANGED <<learningMode, toggles, geoIndex, seenGeoAlerts, trending, passPc>>

\* the learning-mode flag is switched from outside the engine
SetLearningMode ==
    /\ toggles < MaxToggles
    /\ toggles' = toggles + 1
    /\ learningMode' = ~learningMode
    /\ UNCHANGED <<geoIndex, seenGeoAlerts, trending, passPc, flightRuns, emitted>>

\* ingestProtests / ingestFlights / ...: a cluster of converging events forms
IngestGeoEvents(k) ==
    /\ k \notin geoIndex
    /\ geoIndex' = geoIndex \cup {k}
    /\ UNCHANGED <<learningMode, toggles, seenGeoAlerts, trending, passPc,
                   flightRuns, emitted>>

\* the trending-keyword service queues a keyword-spike signal
KeywordSpike ==
    /\ trending = {}
    /\ trending' = {"kw"}
    /\ UNCHANGED <<learningMode, toggles, geoIndex, seenGeoAlerts, passPc,
                   flightRuns, emitted>>

(***************************************************************************)
(* PopulationExposurePanel: setExposures, called by loadIntelligenceSignals *)
(* (lines 1242-1262), starts loadAIFallback without awaiting it when the   *)
(* exposure list is empty.                                                 *)
(***************************************************************************)
AI_CACHE_TTL == 15 * 60 * 1000
ExposureTickSizes == {60 * 1000, AI_CACHE_TTL}

\* the provider calls of the fallback outstanding now
ExposureOutstanding == { r \in 1..MaxExposureCalls : expReq[r] \in {"xai", "openai"} }

\* line 51: aiCache && Date.now() - aiCacheTimestamp < AI_CACHE_TTL
ExposureCacheValid == expCache.has /\ now - expCache.timestamp < AI_CACHE_TTL

\* setExposures(exposures); with an empty list, loadAIFallback up to its await
SetExposures(r, empty) ==
    /\ expReq[r] = "idle"
    /\ \A q \in 1..(r - 1) : expReq[q] # "idle"
    /\ IF ~empty
       THEN /\ expPanel' = "exposures"
            /\ expReq' = [expReq EXCEPT ![r] = "done"]
       ELSE IF ExposureCacheValid
       THEN /\ expPanel' = "ai"
            /\ expReq' = [expReq EXCEPT ![r] = "done"]
       ELSE /\ expPanel' = "loading"
            /\ expReq' = [expReq EXCEPT ![r] = IF xaiAvail THEN "xai" ELSE "openai"]
    /\ UNCHANGED <<expCache, now, ticks>>

\* lines 65-73: callAI has returned data (ok) or null
ExposureDone(r, ok) ==
    /\ expReq' = [expReq EXCEPT ![r] = "done"]
    /\ IF ok
       THEN /\ expCache' = [has |-> TRUE, timestamp |-> now]
            /\ expPanel' = "ai"
       ELSE /\ expPanel' = "empty"
            /\ UNCHANGED expCache

\* lines 77-86: the xAI call settles; without a result the OpenAI call follows
ExposureXaiSettles(r, ok) ==
    /\ expReq[r] = "xai"
    /\ IF ok
       THEN ExposureDone(r, TRUE)
       ELSE /\ expReq' = [expReq EXCEPT ![r] = "openai"]
            /\ UNCHANGED <<expCache, expPanel>>
    /\ UNCHANGED <<now, ticks>>

\* line 85: the OpenAI call settles
ExposureOpenAISettles(r, ok) ==
    /\ expReq[r] = "openai"
    /\ ExposureDone(r, ok)
    /\ UNCHANGED <<now, ticks>>

\* the clock advances by d ms
ExposureTick(d) ==
    /\ ticks < MaxTicks
    /\ now' = now + d
    /\ ticks' = ticks + 1
    /\ UNCHANGED expVars

(***************************************************************************)
(* loadNews: categories are processed in chunks of categoryConcurrency,    *)
(* each chunk joined by Promise.allSettled before the next one starts.     *)
(***************************************************************************)
\* lines 665-666
MaxCategoryConcurrency == IF cfg.variant = "tech" THEN 4 ELSE 5
Min(a, b) == IF a < b THEN a ELSE b
Max(a, b) == IF a > b THEN a ELSE b
CategoryConcurrency(n) == Max(1, Min(MaxCategoryConcurrency, n))

\* categories.slice(i, i + categoryConcurrency), as 1-based positions
Chunk(i, n) == { c \in 1..n : i < c /\ c <= i + CategoryConcurrency(n) }

Settled(c) == catPc[c] \in {"fulfilled", "rejected"}

\* variant of the join that goes on as soon as one category has settled
ChunkJoinedAny(chunk) == \E c \in chunk : Settled(c)

\* await Promise.allSettled(chunk.map(...)): every promise has settled
ChunkJoined(chunk) == \A c \in chunk : Settled(c)

\* chunk.map(({key, feeds}) => this.loadNewsCategory(key, feeds))
StartChunk(pcs, chunk) == [c \in 1..MaxCategories |-> IF c \in chunk THEN "running" ELSE pcs[c]]

\* loadNews() over n categories, up to the first allSettled
LoadNews(n) ==
    /\ categories = 0
    /\ categories' = n
    /\ chunkAt' = 0
    /\ catPc' = StartChunk(catPc, Chunk(0, n))

\* a loadNewsCategory promise settles
CategorySettles(c, ok) ==
    /\ catPc[c] = "running"
    /\ catPc' = [catPc EXCEPT ![c] = IF ok THEN "fulfilled" ELSE "rejected"]
    /\ UNCHANGED <<categories, chunkAt>>

\* the allSettled of the current chunk resolves: i += categoryConcurrency and
\* the next chunk, if any, is started
ChunkResumes ==
    /\ categories > 0
    /\ chunkAt < categories
    /\ ChunkJoined(Chunk(chunkAt, categories))
    /\ chunkAt' = chunkAt + CategoryConcurrency(categories)
    /\ catPc' = StartChunk(catPc, Chunk(chunkAt', categories))
    /\ UNCHANGED categories

(***************************************************************************)
(* The generative services: market-ai-fallback (fetchAIMarketData),        *)
(* energy-gold-ai-data (getAIEnergyPrices, getAIGoldData), layer-ai        *)
(* (fetchAllLayerData) and panel-ai-fallback (dedupedFetch + fetcher).     *)
(* A provider answers with a chat completion whose content is a string, or *)
(* fails (HTTP status, network error, abort by the call's timer).          *)
(***************************************************************************)
GenKinds == {"market", "energy", "layers", "panel"}

\* a completion's content: its JSON body is an object with the required
\* keys, an object without them ({}), or no JSON at all; it may come wrapped
\* in a ``` fence
Raws == [fence : BOOLEAN, body : {"valid", "nokeys", "malformed"}]
\* a call that ends without content: !resp.ok, a rejected fetch, an abort
Failure(why) == [fence |-> FALSE, body |-> why]
ProviderFailures == {Failure("httpError"), Failure("netError")}
IsRaw(resp) == resp.body \in {"valid", "nokeys", "malformed"}

\* setTimeout(() => abort.abort(), ...) of the service
AbortAfterMs(kind) ==
    CASE kind = "market" -> 15000
      [] kind = "layers" -> 20000
      [] OTHER           -> 30000

\* the TTL of the service's cache
GenTTL(kind) == IF kind = "layers" THEN 15 * 60 * 1000 ELSE 10 * 60 * 1000

GenTickSizes == {5000, 15000, 15 * 60 * 1000}

\* if (cleaned.startsWith('```')) cleaned = cleaned.replace(...)
CleanJSON(raw) == [raw EXCEPT !.fence = FALSE]

\* JSON.parse: the parsed body, or a SyntaxError
JSONParse(raw) ==
    IF raw.fence \/ raw.body = "malformed" THEN "SyntaxError" ELSE raw.body

\* variant of the parse step whose catch is missing
ParseOrThrow(kind, raw) ==
    LET j == JSONParse(CleanJSON(raw)) IN
    IF j = "SyntaxError" THEN "throw"
    ELSE IF kind = "layers" \/ j = "valid" THEN j ELSE "null"

\* parseAIResponse / the try block of the energy, gold and panel fetchers /
\* tryParse: the payload accepted, or "null".  Every service but layer-ai
\* checks the required keys after JSON.parse.
Parse(kind, raw) ==
    LET j == JSONParse(CleanJSON(raw)) IN
    IF j = "SyntaxError" THEN "null"
    ELSE IF kind = "layers" \/ j = "valid" THEN j ELSE "null"

\* fetchAIMarketData parses each provider's answer inside the chain; callAI of
\* the other services returns the first non-null string unparsed
ParsesPerProvider(kind) == kind = "market"

NoTimer == [live |-> FALSE, start |-> 0, due |-> 0]
SetAbortTimer(kind) == [live |-> TRUE, start |-> now, due |-> now + AbortAfterMs(kind)]

\* variant of the exit path that clears the timer only after a good answer
ClearTimeoutOnSuccess(t, resp) == IF IsRaw(resp) THEN NoTimer ELSE t

\* finally { clearTimeout(timeout) }
ClearTimeout(t, resp) == NoTimer

GenCacheValid(kind) == genCache.has /\ now - genCache.timestamp < GenTTL(kind)

\* the getter of service `kind` is called: the cache, or the provider chain
\* up to its first await
GenGet(kind) ==
    /\ genPc \in {"idle", "done"}
    /\ genKind \in {"none", kind}
    /\ genTimer = NoTimer
    /\ genCalls < MaxGenCalls
    /\ genCalls' = genCalls + 1
    /\ genKind' = kind
    /\ genAtCall' = genCache
    /\ genLog' = [xai |-> "none", openai |-> "none"]
    /\ IF GenCacheValid(kind)
       THEN /\ genRet' = genCache.payload
            /\ genPc' = "done"
            /\ UNCHANGED genTimer
       ELSE /\ genRet' = "none"
            /\ genPc' = IF xaiAvail THEN "xai" ELSE "openai"
            /\ genTimer' = SetAbortTimer(kind)
    /\ UNCHANGED <<genCache, now, ticks>>

\* the getter settles with payload p ("null": nothing usable)
GenSettle(p) ==
    /\ genPc' = "done"
    /\ genRet' = p
    /\ genCache' = IF p \in {"null", "throw"} THEN genCache
                   ELSE [has |-> TRUE, payload |-> p, timestamp |-> now]

\* the provider call under way ends with `resp`: a content string, a
\* failure, or "timeout" when its own timer aborted it; the chain runs on to
\* its next await or to the getter's return
GenProviderEnds(resp) ==
    /\ genPc \in {"xai", "openai"}
    /\ genLog' = [genLog EXCEPT ![genPc] = resp.body]
    /\ LET cleared == ClearTimeout(genTimer, resp)
           usable  == IF ParsesPerProvider(genKind)
                      THEN IsRaw(resp) /\ Parse(genKind, resp) # "null"
                      ELSE IsRaw(resp)
       IN IF usable
          THEN /\ GenSettle(Parse(genKind, resp))
               /\ genTimer' = cleared
          ELSE IF genPc = "xai"
          THEN /\ genPc' = "openai"
               /\ genTimer' = IF cleared.live THEN cleared ELSE SetAbortTimer(genKind)
               /\ UNCHANGED <<genRet, genCache>>
          ELSE /\ GenSettle("null")
               /\ genTimer' = cleared
    /\ UNCHANGED <<genKind, genAtCall, genCalls, now, ticks>>

\* a provider answers or fails before its timer is due
GenProviderResponds(resp) ==
    /\ resp \in Raws \cup ProviderFailures
    /\ genTimer.live /\ now < genTimer.due
    /\ GenProviderEnds(resp)

\* the abort timer of the call under way fires: fetch rejects, the catch
\* returns null
GenTimerFires ==
    /\ genTimer.live /\ now >= genTimer.due
    /\ IF genPc \in {"xai", "openai"} /\ genTimer.start + AbortAfterMs(genKind) = genTimer.due
       THEN GenProviderEnds(Failure("timeout"))
       ELSE /\ genTimer' = NoTimer
            /\ UNCHANGED <<genKind, genPc, genLog, genCache, genAtCall, genRet, genCalls,
                           now, ticks>>

\* the clock advances by d ms, not beyond the due time of a live timer
GenTick(d) ==
    /\ ticks < MaxTicks
    /\ genTimer.live => now + d <= genTimer.due
    /\ now' = now + d
    /\ ticks' = ticks + 1
    /\ UNCHANGED genVars

(***************************************************************************)
(* The loaders that keep their dataset on the context: loadOutages,        *)
(* loadCyberThreats, loadProtests, loadMilitary.                           *)
(***************************************************************************)
CtxDomains == {"outages", "cyberThreats", "protests", "military"}
CtxTickSizes == {5 * 60 * 1000, 60 * 60 * 1000}

\* if (this.ctx.intelligenceCache.outages) / if (this.ctx.cyberThreatsCache):
\* the dataset is set (an empty list is truthy as well)
CtxCacheSet(d) == ctxWrittenAt[d] >= 0

\* the loader of d is called: the early returns, or the fetch is started
LoadCtx(d) ==
    /\ ml(d)
    /\ ctxPc[d] = "idle"
    /\ IF d = "cyberThreats" /\ ~cfg.cyber
       THEN /\ ctxShown[d].from # "fallback"
            /\ ctxShown' = [ctxShown EXCEPT ![d] = [from |-> "fallback", age |-> 0]]
            /\ UNCHANGED ctxPc
       ELSE IF CtxCacheSet(d)
       THEN /\ ctxShown' = [ctxShown EXCEPT
                               ![d] = [from |-> "cache", age |-> now - ctxWrittenAt[d]]]
            /\ UNCHANGED ctxPc
       ELSE /\ ctxPc' = [ctxPc EXCEPT ![d] = "fetching"]
            /\ UNCHANGED ctxShown
    /\ UNCHANGED <<ctxWrittenAt, now, ticks>>

\* the loader's fetch settles: the dataset is kept and shown, or the catch
\* block runs (fallback; loadMilitary only marks the layer not ready)
CtxFetchSettles(d, ok) ==
    /\ ctxPc[d] = "fetching"
    /\ ctxPc' = [ctxPc EXCEPT ![d] = "idle"]
    /\ IF ok
       THEN /\ ctxWrittenAt' = [ctxWrittenAt EXCEPT ![d] = now]
            /\ ctxShown' = [ctxShown EXCEPT ![d] = [from |-> "live", age |-> 0]]
       ELSE /\ ctxShown' = [ctxShown EXCEPT
                               ![d] = [from |-> IF d = "military" THEN "none"
                                                ELSE "fallback",
                                       age |-> 0]]
            /\ UNCHANGED ctxWrittenAt
    /\ UNCHANGED <<now, ticks>>

\* a sub-task of loadIntelligenceSignals (full variant) assigns the dataset
CtxIntelAssigns(d) ==
    /\ cfg.variant = "full"
    /\ d \in {"outages", "protests", "military"}
    /\ ctxWrittenAt[d] # now
    /\ ctxWrittenAt' = [ctxWrittenAt EXCEPT ![d] = now]
    /\ UNCHANGED <<ctxPc, ctxShown, now, ticks>>

CtxTick(d) ==
    /\ ticks < MaxTicks
    /\ now' = now + d
    /\ ticks' = ticks + 1
    /\ UNCHANGED ctxVars

(***************************************************************************)
(* Retry policies: the commodities loop of loadMarkets (lines 844-864) and *)
(* the UCDP loop of loadIntelligenceSignals (lines 1173-1198).             *)
(***************************************************************************)
MaxAttempts == 3
Backoff(kind) == IF kind = "commodities" THEN 20000 ELSE 15000
RetryTickSizes == {5000, 15000, 20000}
StocksOutcomes == {"ok", "rateLimitedEmpty", "skipped", "throw"}
AIMarketOutcomes == {"data", "empty", "throw"}

\* variant of the loop condition that allows a fourth attempt
LoopGoesOnOnceMore(attempts, loaded) == attempts < MaxAttempts + 1 /\ ~loaded

\* attempt < 3 && !commoditiesLoaded / attempt < 3 && !result.success
LoopGoesOn(attempts, loaded) == attempts < MaxAttempts /\ ~loaded

\* a fetch attempt starts now
StartAttempt ==
    /\ rtPc' = "fetching"
    /\ rtAttempts' = rtAttempts + 1

\* loadMarkets is called: up to the await of the stocks fetch
LoadMarkets ==
    /\ rtPc = "idle"
    /\ rtKind' = "commodities"
    /\ rtPc' = "stocks"
    /\ UNCHANGED <<rtAttempts, rtOkAt, rtDue, rtLastEnd, rtGaps, rtStocks, rtAI,
                   rtPanel, now, ticks>>

\* the stocks fetch settles (lines 772-818)
StocksSettles(o) ==
    /\ rtPc = "stocks"
    /\ rtStocks' = o
    /\ CASE o = "throw" ->
              /\ rtPc' = "done"
              /\ UNCHANGED <<rtAttempts, rtPanel>>
         [] o = "rateLimitedEmpty" /\ xaiAvail ->
              /\ rtPc' = "ai"
              /\ UNCHANGED <<rtAttempts, rtPanel>>
         [] o = "rateLimitedEmpty" /\ ~xaiAvail ->
              \* showError; commoditiesLoaded is set at line 846, no attempt
              /\ rtPc' = "done"
              /\ rtPanel' = "error"
              /\ UNCHANGED rtAttempts
         [] o = "skipped" ->
              /\ StartAttempt
              /\ UNCHANGED rtPanel
         [] o = "ok" ->
              /\ rtPc' = "sectors"
              /\ UNCHANGED <<rtAttempts, rtPanel>>
    /\ UNCHANGED <<rtKind, rtOkAt, rtDue, rtLastEnd, rtGaps, rtAI, now, ticks>>

\* Promise.all of getAIStocks, getAICommodities, getAISectors settles
\* (lines 785-809); line 846 then marks the commodities loaded
AIMarketSettles(o) ==
    /\ rtPc = "ai"
    /\ rtAI' = o
    /\ rtPc' = "done"
    /\ rtPanel' = CASE o = "data"  -> "data"
                    [] o = "empty" -> rtPanel
                    [] o = "throw" -> "error"
    /\ UNCHANGED <<rtKind, rtAttempts, rtOkAt, rtDue, rtLastEnd, rtGaps, rtStocks,
                   now, ticks>>

\* the sectors fetch settles (lines 827-839); a rejection ends in the catch
SectorsSettle(ok) ==
    /\ rtPc = "sectors"
    /\ IF ok THEN StartAttempt
       ELSE rtPc' = "done" /\ UNCHANGED rtAttempts
    /\ UNCHANGED <<rtKind, rtOkAt, rtDue, rtLastEnd, rtGaps, rtStocks, rtAI, rtPanel,
                   now, ticks>>

\* the task of loadIntelligenceSignals that loads the UCDP events: after the
\* protests task, the first fetch
LoadUcdp ==
    /\ rtPc = "idle"
    /\ rtKind' = "ucdp"
    /\ StartAttempt
    /\ UNCHANGED <<rtOkAt, rtDue, rtLastEnd, rtGaps, rtStocks, rtAI, rtPanel, now,
                   ticks>>

\* onBatch of the commodities fetch
CommoditiesBatch ==
    /\ rtPc = "fetching" /\ rtKind = "commodities"
    /\ rtPanel # "partial"
    /\ rtPanel' = "partial"
    /\ UNCHANGED <<rtKind, rtPc, rtAttempts, rtOkAt, rtDue, rtLastEnd, rtGaps,
                   rtStocks, rtAI, now, ticks>>

\* the fetch attempt under way settles with o: "ok", "failed" (no price / not
\* success) or "throw"
AttemptSettles(o) ==
    /\ rtPc = "fetching"
    /\ rtLastEnd' = now
    /\ CASE o = "throw" ->
              /\ rtPc' = "done"
              /\ UNCHANGED <<rtOkAt, rtDue, rtPanel>>
         [] o = "ok" ->
              /\ rtPc' = "done"
              /\ rtOkAt' = rtAttempts
              /\ rtPanel' = IF rtKind = "commodities" THEN "data" ELSE rtPanel
              /\ UNCHANGED rtDue
         [] o = "failed" /\ LoopGoesOn(rtAttempts, FALSE) ->
              /\ rtPc' = "sleeping"
              /\ rtDue' = now + Backoff(rtKind)
              /\ rtPanel' = IF rtKind = "commodities" THEN "retrying" ELSE rtPanel
              /\ UNCHANGED rtOkAt
         [] o = "failed" /\ ~LoopGoesOn(rtAttempts, FALSE) ->
              /\ rtPc' = "done"
              /\ rtPanel' = IF rtKind = "commodities" THEN "emptyList" ELSE rtPanel
              /\ UNCHANGED <<rtOkAt, rtDue>>
    /\ UNCHANGED <<rtKind, rtAttempts, rtGaps, rtStocks, rtAI, now, ticks>>

\* the backoff timer fires: the next attempt starts
BackoffFires ==
    /\ rtPc = "sleeping"
    /\ now >= rtDue
    /\ StartAttempt
    /\ rtGaps' = Append(rtGaps, now - rtLastEnd)
    /\ UNCHANGED <<rtKind, rtOkAt, rtDue, rtLastEnd, rtStocks, rtAI, rtPanel, now,
                   ticks>>

RetryTick(d) ==
    /\ ticks < MaxTicks
    /\ rtPc = "sleeping" => now + d <= rtDue
    /\ now' = now + d
    /\ ticks' = ticks + 1
    /\ UNCHANGED retryVars

(***************************************************************************)
(* flashMapForNews (lines 478-502): a map flash per located news item,     *)
(* at most once per cache key and cooldown.                                *)
(***************************************************************************)
MAP_FLASH_COOLDOWN_MS == 10 * 60 * 1000
FlashTickSizes == {5 * 60 * 1000, MAP_FLASH_COOLDOWN_MS}

\* news items: two with the same link, one without a link
NewsItems ==
    { [source |-> "wire", link |-> "l1", title |-> "strike"],
      [source |-> "wire", link |-> "l1", title |-> "calm"],
      [source |-> "wire", link |-> "",   title |-> "strike"] }
Batches == UNION { [1..n -> NewsItems] : n \in 0..MaxBatchLen }

\* line 490: `${item.source}|${item.link || item.title}`
CacheKey(item) == <<item.source, IF item.link # "" THEN item.link ELSE item.title>>

\* findFlashLocation(item.title): a hotspot or conflict zone matches the title
HasFlashLocation(item) == item.title = "strike"

\* this.mapFlashCache.get(cacheKey): undefined is modelled as 0
CacheGet(cache, key) == IF key \in DOMAIN cache THEN cache[key] ELSE 0

\* variant of the cooldown test that never skips
NeverInCooldown(lastSeen, t) == FALSE

\* line 492: lastSeen && now - lastSeen < MAP_FLASH_COOLDOWN_MS
InCooldown(lastSeen, t) == lastSeen # 0 /\ t - lastSeen < MAP_FLASH_COOLDOWN_MS

\* variant of the sweep that deletes nothing
SweptNothing(cache, t) == cache

\* lines 483-487: entries older than the cooldown are deleted
Swept(cache, t) ==
    [k \in {x \in DOMAIN cache : ~(t - cache[x] > MAP_FLASH_COOLDOWN_MS)} |-> cache[k]]

CachePut(cache, key, t) ==
    [k \in DOMAIN cache \cup {key} |-> IF k = key THEN t ELSE cache[k]]

\* lines 489-501: the loop over the items, from item i on
RECURSIVE FlashLoop(_, _, _)
FlashLoop(st, items, i) ==
    IF i > Len(items) THEN st
    ELSE LET item == items[i]
             key  == CacheKey(item)
         IN IF InCooldown(CacheGet(st.cache, key), now)
            THEN FlashLoop([st EXCEPT !.skips = @ + 1], items, i + 1)
            ELSE IF ~HasFlashLocation(item)
            THEN FlashLoop(st, items, i + 1)
            ELSE FlashLoop([st EXCEPT !.cache = CachePut(@, key, now),
                                      !.log = Append(@, [key |-> key, at |-> now])],
                           items, i + 1)

FlashMapForNews(items) ==
    /\ flashCalls < MaxFlashCalls
    /\ flashCalls' = flashCalls + 1
    /\ IF ~flashReady \/ ~mapNewsFlash
       THEN UNCHANGED <<mapFlashCache, flashLog, flashSkips>>
       ELSE LET st == FlashLoop([cache |-> Swept(mapFlashCache, now), log |-> flashLog,
                                 skips |-> flashSkips], items, 1)
            IN /\ mapFlashCache' = st.cache
               /\ flashLog' = st.log
               /\ flashSkips' = st.skips
    /\ UNCHANGED <<flashReady, mapNewsFlash, now, ticks>>

\* the first load completes with the map present
InitialLoadCompletes ==
    /\ ~flashReady
    /\ flashReady' = TRUE
    /\ UNCHANGED <<mapNewsFlash, mapFlashCache, flashLog, flashSkips, flashCalls, now,
                   ticks>>

\* the user switches the map-flash setting
SetMapNewsFlash(on) ==
    /\ mapNewsFlash # on
    /\ mapNewsFlash' = on
    /\ UNCHANGED <<flashReady, mapFlashCache, flashLog, flashSkips, flashCalls, now,
                   ticks>>

FlashTick(d) ==
    /\ ticks < MaxTicks
    /\ now' = now + d
    /\ ticks' = ticks + 1
    /\ UNCHANGED flashVars

(***************************************************************************)
(* waitForAisData: checkData polls getAisStatus, re-arming a one-second    *)
(* timer until vessels or a connection are seen, the attempts run out, or  *)
(* the context is destroyed.                                               *)
(***************************************************************************)
maxAttempts == 30
AisTimerMs == 1000
AisTickSizes == {500, 1000}

\* what getAisStatus() may return
AisStatuses == [connected : BOOLEAN, vessels : {0, 2}]

\* line 1594: status.vessels > 0 || status.connected
SeesData(st) == st.vessels > 0 \/ st.connected

\* variant of the limit test that never gives up
NeverExhausted(n) == FALSE

\* line 1600: attempts >= maxAttempts
AttemptsExhausted(n) == n >= maxAttempts

\* checkData() with status st
CheckData(st) ==
    IF isDestroyed
    THEN /\ aisPc' = "done"
         /\ UNCHANGED <<aisAttempts, aisDue, aisLastCheck, aisGaps, aisLoads, aisSeen,
                        aisLayer, aisFeed>>
    ELSE /\ aisAttempts' = aisAttempts + 1
         /\ aisLastCheck' = now
         /\ aisGaps' = IF aisLastCheck = 0 THEN aisGaps
                       ELSE aisGaps \cup {now - aisLastCheck}
         /\ aisSeen' = IF SeesData(st) THEN aisSeen \cup {aisAttempts'} ELSE aisSeen
         /\ IF SeesData(st)
            THEN /\ aisLoads' = Append(aisLoads, aisAttempts')
                 /\ aisLayer' = "loadingOff"
                 /\ aisPc' = "done"
                 /\ UNCHANGED <<aisDue, aisFeed>>
            ELSE IF AttemptsExhausted(aisAttempts')
            THEN /\ aisLayer' = "notReady"
                 /\ aisFeed' = "Connection timeout"
                 /\ aisPc' = "done"
                 /\ UNCHANGED <<aisDue, aisLoads>>
            ELSE /\ aisDue' = now + AisTimerMs
                 /\ aisPc' = "scheduled"
                 /\ UNCHANGED <<aisLoads, aisLayer, aisFeed>>

\* waitForAisData(): the first checkData runs at once
WaitForAisData(st) ==
    /\ aisPc = "idle"
    /\ CheckData(st)
    /\ UNCHANGED <<now, ticks>>

\* the timer set at line 1610 fires
AisTimerFires(st) ==
    /\ aisPc = "scheduled"
    /\ now >= aisDue
    /\ CheckData(st)
    /\ UNCHANGED <<now, ticks>>

\* the clock advances while the timer is pending; the timer fires at the
\* first step at or after its due time
AisTick(d) ==
    /\ aisPc = "scheduled"
    /\ now < aisDue
    /\ now' = now + d
    /\ UNCHANGED <<ticks, aisVars>>

(***************************************************************************)
(* Specifications.                                                         *)
(***************************************************************************)
NoCache == [has |-> FALSE, timestamp |-> 0, val |-> 0]
IdleCaller == [pc |-> "idle", h |-> 0, creator |-> FALSE, res |-> 0,
               sawFresh |-> FALSE, sawStale |-> FALSE, sawVal |-> 0, sawStamp |-> 0,
               at |-> 0]

\* the state after construction, for the runs (site configurations cfgs, xAI
\* feature flags xs, disabled-source sets ds, panel presence ps) explored
InitWith(cfgs, xs, ds, ps) ==
    /\ cfg \in cfgs
    /\ isDestroyed = FALSE
    /\ inFlight = {}
    /\ running = EmptyBag
    /\ cycles = 0
    /\ joined = {}
    /\ layerLoads = 0
    /\ sweepTimers = 0
    /\ sweepPc = "idle"
    /\ sweepsDone = 0
    /\ layer = [d \in Domains |-> [data |-> "none", ready |-> FALSE]]
    /\ layerLoading = {}
    /\ intelCache = [d \in {"outages", "protests", "military"} |-> "unset"]
    /\ cyberCache = "unset"
    /\ aiLayerCache = [has |-> FALSE, arrays |-> {}]
    /\ aiLayerFresh = FALSE
    /\ caught = {}
    /\ logged = {}
    /\ rejected = {}
    /\ dupCalls = {}
    /\ liveOk = {}
    /\ now = 10 * renderIntervalMs
    /\ ticks = 0
    /\ xaiAvail \in xs
    /\ aiCache = NoCache
    /\ fetchInProgress = 0
    /\ evals = <<>>
    /\ callers = [c \in 1..MaxCallers |-> IdleCaller]
    /\ calls = 0
    /\ httpCalls = 0
    /\ disabledSources \in ds
    /\ hasPanel \in ps
    /\ newsPc = "idle"
    /\ fetchedFeeds = {}
    /\ netCalls = 0
    /\ batches = 0
    /\ lastRenderTime = 0
    /\ renderTimeout = 0
    /\ pendingItems = 0
    /\ renders = <<>>
    /\ newsByCategory = Absent
    /\ panelMsg = "none"
    /\ feedStatus = NoStatus
    /\ ret = EmptyList
    /\ feedFailed = FALSE
    /\ learningMode = TRUE
    /\ toggles = 0
    /\ geoIndex = {}
    /\ seenGeoAlerts = {}
    /\ trending = {}
    /\ passPc = [p \in 1..MaxPasses |-> "idle"]
    /\ flightRuns = 0
    /\ emitted = <<>>
    /\ expCache = [has |-> FALSE, timestamp |-> 0]
    /\ expReq = [r \in 1..MaxExposureCalls |-> "idle"]
    /\ expPanel = "loading"
    /\ categories = 0
    /\ chunkAt = 0
    /\ catPc = [c \in 1..MaxCategories |-> "idle"]
    /\ genKind = "none"
    /\ genPc = "idle"
    /\ genTimer = [live |-> FALSE, start |-> 0, due |-> 0]
    /\ genLog = [xai |-> "none", openai |-> "none"]
    /\ genCache = [has |-> FALSE, payload |-> "none", timestamp |-> 0]
    /\ genAtCall = [has |-> FALSE, payload |-> "none", timestamp |-> 0]
    /\ genRet = "none"
    /\ genCalls = 0
    /\ ctxWrittenAt = [d \in CtxDomains |-> -1]
    /\ ctxPc = [d \in CtxDomains |-> "idle"]
    /\ ctxShown = [d \in CtxDomains |-> [from |-> "none", age |-> 0]]
    /\ rtKind = "none"
    /\ rtPc = "idle"
    /\ rtAttempts = 0
    /\ rtOkAt = 0
    /\ rtDue = 0
    /\ rtLastEnd = 0
    /\ rtGaps = <<>>
    /\ rtStocks = "none"
    /\ rtAI = "none"
    /\ rtPanel = "none"
    /\ flashReady = FALSE
    /\ mapNewsFlash = TRUE
    /\ mapFlashCache = <<>>
    /\ flashLog = <<>>
    /\ flashSkips = 0
    /\ flashCalls = 0
    /\ aisPc = "idle"
    /\ aisAttempts = 0
    /\ aisDue = 0
    /\ aisLastCheck = 0
    /\ aisGaps = {}
    /\ aisLoads = <<>>
    /\ aisSeen = {}
    /\ aisLayer = "unset"
    /\ aisFeed = "none"

\* the configuration of the parts a specification leaves at rest
RestCfg == { c \in Configs : c.variant = "happy" }

\* the scheduler and the fallback ladder
Spec == InitWith(Configs, {TRUE}, {{}}, {TRUE}) /\ [][Next]_vars

\* the generative market cache
otherThanCache == <<schedVars, newsVars, sigVars, expVars, chunkVars, genVars, ctxVars, retryVars, flashVars, aisVars>>
NextCache ==
    \/ \E c \in 1..MaxCallers : FetchAIMarketData(c) /\ UNCHANGED otherThanCache
    \/ \E id \in 1..MaxCalls : \E ok \in BOOLEAN :
          ProviderSettles(id, ok) /\ UNCHANGED otherThanCache
    \/ \E c \in 1..MaxCallers : Resume(c) /\ UNCHANGED otherThanCache
    \/ \E d \in TickSizes : Tick(d) /\ UNCHANGED otherThanCache
SpecCache == InitWith(RestCfg, BOOLEAN, {{}}, {TRUE}) /\ [][NextCache]_vars

\* one news category
otherThanNews == <<schedVars, cacheVars, sigVars, expVars, chunkVars, genVars, ctxVars, retryVars, flashVars, aisVars>>
NextNews ==
    \/ LoadNewsCategory /\ UNCHANGED otherThanNews
    \/ OnBatch /\ UNCHANGED otherThanNews
    \/ RenderTimerFires /\ UNCHANGED otherThanNews
    \/ \E items \in FinalLists, failed \in BOOLEAN :
          NewsFetchResolves(items, failed) /\ UNCHANGED otherThanNews
    \/ BaselineSettles /\ UNCHANGED otherThanNews
    \/ NewsFetchThrows /\ UNCHANGED otherThanNews
    \/ \E d \in NewsTickSizes : NewsTick(d) /\ UNCHANGED otherThanNews
SpecNews == InitWith(RestCfg, {TRUE}, SUBSET Feeds, BOOLEAN) /\ [][NextNews]_vars

\* the signal emission path alone
otherThanSignals == <<schedVars, clockVars, cacheVars, newsVars, expVars, chunkVars, genVars, ctxVars, retryVars, flashVars, aisVars>>
NextSignals ==
    \/ \E p \in 1..MaxPasses, c \in BOOLEAN :
          RunCorrelationAnalysis(p, c) /\ UNCHANGED otherThanSignals
    \/ \E p \in 1..MaxPasses, ok \in BOOLEAN :
          ClusteringSettles(p, ok) /\ UNCHANGED otherThanSignals
    \/ \E p \in 1..MaxPasses, sg \in CorrelationSignals, ok \in BOOLEAN, sinkOk \in BOOLEAN :
          AnalyzeCorrelationsSettles(p, sg, ok, sinkOk) /\ UNCHANGED otherThanSignals
    \/ \E a \in FlightSignalSets : AnalyzeFlights(a) /\ UNCHANGED otherThanSignals
    \/ SetLearningMode /\ UNCHANGED otherThanSignals
    \/ \E k \in ClusterKeys : IngestGeoEvents(k) /\ UNCHANGED otherThanSignals
    \/ KeywordSpike /\ UNCHANGED otherThanSignals
SpecSignals == InitWith(RestCfg, {TRUE}, {{}}, {TRUE}) /\ [][NextSignals]_vars

\* the population-exposure fallback alone
otherThanExposure == <<schedVars, cacheVars, newsVars, sigVars, chunkVars, genVars, ctxVars, retryVars, flashVars, aisVars>>
NextExposure ==
    \/ \E r \in 1..MaxExposureCalls, empty \in BOOLEAN :
          SetExposures(r, empty) /\ UNCHANGED otherThanExposure
    \/ \E r \in 1..MaxExposureCalls, ok \in BOOLEAN :
          ExposureXaiSettles(r, ok) /\ UNCHANGED otherThanExposure
    \/ \E r \in 1..MaxExposureCalls, ok \in BOOLEAN :
          ExposureOpenAISettles(r, ok) /\ UNCHANGED otherThanExposure
    \/ \E d \in ExposureTickSizes : ExposureTick(d) /\ UNCHANGED otherThanExposure
SpecExposure == InitWith(RestCfg, BOOLEAN, {{}}, {TRUE}) /\ [][NextExposure]_vars

\* one generative getter alone
otherThanGen == <<schedVars, cacheVars, newsVars, sigVars, expVars, chunkVars, ctxVars, retryVars, flashVars, aisVars>>
NextGen ==
    \/ \E k \in GenKinds : GenGet(k) /\ UNCHANGED otherThanGen
    \/ \E r \in Raws \cup ProviderFailures :
          GenProviderResponds(r) /\ UNCHANGED otherThanGen
    \/ GenTimerFires /\ UNCHANGED otherThanGen
    \/ \E d \in GenTickSizes : GenTick(d) /\ UNCHANGED otherThanGen
SpecGen == InitWith(RestCfg, BOOLEAN, {{}}, {TRUE}) /\ [][NextGen]_vars

\* the context-held datasets alone
otherThanCtx == <<schedVars, cacheVars, newsVars, sigVars, expVars, chunkVars, genVars, retryVars, flashVars, aisVars>>
NextCtx ==
    \/ \E d \in CtxDomains : LoadCtx(d) /\ UNCHANGED otherThanCtx
    \/ \E d \in CtxDomains, ok \in BOOLEAN :
          CtxFetchSettles(d, ok) /\ UNCHANGED otherThanCtx
    \/ \E d \in CtxDomains : CtxIntelAssigns(d) /\ UNCHANGED otherThanCtx
    \/ \E d \in CtxTickSizes : CtxTick(d) /\ UNCHANGED otherThanCtx
SpecCtx == InitWith(Configs, {TRUE}, {{}}, {TRUE}) /\ [][NextCtx]_vars

\* one load with a retry policy alone
otherThanRetry == <<schedVars, cacheVars, newsVars, sigVars, expVars, chunkVars, genVars,
                    ctxVars, flashVars, aisVars>>
NextRetry ==
    \/ LoadMarkets /\ UNCHANGED otherThanRetry
    \/ \E o \in StocksOutcomes : StocksSettles(o) /\ UNCHANGED otherThanRetry
    \/ \E o \in AIMarketOutcomes :
          AIMarketSettles(o) /\ UNCHANGED otherThanRetry
    \/ \E ok \in BOOLEAN : SectorsSettle(ok) /\ UNCHANGED otherThanRetry
    \/ LoadUcdp /\ UNCHANGED otherThanRetry
    \/ CommoditiesBatch /\ UNCHANGED otherThanRetry
    \/ \E o \in {"ok", "failed", "throw"} :
          AttemptSettles(o) /\ UNCHANGED otherThanRetry
    \/ BackoffFires /\ UNCHANGED otherThanRetry
    \/ \E d \in RetryTickSizes : RetryTick(d) /\ UNCHANGED otherThanRetry
SpecRetry == InitWith(RestCfg, BOOLEAN, {{}}, {TRUE}) /\ [][NextRetry]_vars

\* the map flashes alone
otherThanFlash == <<schedVars, cacheVars, newsVars, sigVars, expVars, chunkVars, genVars,
                    ctxVars, retryVars, aisVars>>
NextFlash ==
    \/ \E items \in Batches : FlashMapForNews(items) /\ UNCHANGED otherThanFlash
    \/ InitialLoadCompletes /\ UNCHANGED otherThanFlash
    \/ \E on \in BOOLEAN : SetMapNewsFlash(on) /\ UNCHANGED otherThanFlash
    \/ \E d \in FlashTickSizes : FlashTick(d) /\ UNCHANGED otherThanFlash
SpecFlash == InitWith(RestCfg, {TRUE}, {{}}, {TRUE}) /\ [][NextFlash]_vars

\* waitForAisData alone; timers fire and time passes
otherThanAis == <<schedVars, cacheVars, newsVars, sigVars, expVars, chunkVars, genVars,
                  ctxVars, retryVars, flashVars>>
AisTimerRuns ==
    \/ \E st \in AisStatuses : AisTimerFires(st) /\ UNCHANGED otherThanAis
    \/ \E d \in AisTickSizes : AisTick(d) /\ UNCHANGED otherThanAis
NextAis ==
    \/ \E st \in AisStatuses : WaitForAisData(st) /\ UNCHANGED otherThanAis
    \/ AisTimerRuns
    \/ Destroy /\ UNCHANGED otherThanSched
SpecAis ==
    InitWith(RestCfg, {TRUE}, {{}}, {TRUE}) /\ [][NextAis]_vars /\ WF_vars(AisTimerRuns)

\* the chunked fan-out of loadNews alone, in the tech and another variant
otherThanChunks == <<schedVars, clockVars, cacheVars, newsVars, sigVars, expVars, genVars, ctxVars, retryVars, flashVars, aisVars>>
NextChunks ==
    \/ \E n \in 1..MaxCategories : LoadNews(n) /\ UNCHANGED otherThanChunks
    \/ \E c \in 1..MaxCategories, ok \in BOOLEAN :
          CategorySettles(c, ok) /\ UNCHANGED otherThanChunks
    \/ ChunkResumes /\ UNCHANGED otherThanChunks
SpecChunks ==
    InitWith({c \in Configs : c.variant \in {"tech", "happy"}}, {TRUE}, {{}}, {TRUE})
       /\ [][NextChunks]_vars

(***************************************************************************)
(* Properties of the guarded scheduler.                                    *)
(***************************************************************************)
\* the executions started by runGuarded under name n that have not settled
GuardedRunning(n) == { e \in BagToSet(running) : e.via = "guarded" /\ e.name = n }

\* C1: a runGuarded call made while an earlier call with the same name has
\* not completed does not execute its operation: at any time at most one
\* execution of a task name is in progress, however often it was called.
C1_OneExecutionPerName ==
    \A n \in TaskNames :
        /\ Cardinality(GuardedRunning(n)) <= 1
        /\ \A e \in GuardedRunning(n) : CopiesIn(e, running) = 1

\* the second load cycle called a task that the first cycle still runs
C1_Witness ==
    \E n \in dupCalls :
        /\ cycles = 2
        /\ \E e \in GuardedRunning(n) : e.cyc = 1

\* C2: the in-flight set holds exactly the names that have an execution in
\* progress: a name is released on every exit, also when the operation
\* threw, and is never left registered with nothing running, so that the
\* next guarded call with that name is admitted.
C2_InFlightIsRunning ==
    /\ inFlight = { e.name : e \in BagToSet(running) }
    /\ \A n \in TaskNames : GuardedRunning(n) = {} /\ ~isDestroyed =>
           (RunGuardedAdmits(n) \/ \E e \in BagToSet(running) : e.name = n)

\* 'giving' threw in the first cycle and runs again in the second
C2_Witness ==
    /\ "giving" \in caught
    /\ \E e \in GuardedRunning("giving") : e.cyc = 2

Populated(x) == x.data \in {"live", "ai", "static"} /\ x.ready

\* one load cycle and its sweep have run to the end and nothing else has
Quiescent ==
    /\ ~isDestroyed
    /\ cycles = 1 /\ joined = {1} /\ layerLoads = 0
    /\ running = EmptyBag
    /\ sweepsDone = 1 /\ sweepPc = "idle" /\ sweepTimers = 0

\* C4 as stated: after a load cycle and its post-load sweep have completed,
\* every enabled layer holds a non-empty dataset and is marked ready.
C4_AllLayersPopulated ==
    Quiescent => \A d \in cfg.layers : Populated(layer[d])

SweepStep ==
    \/ sweepTimers' < sweepTimers
    \/ sweepPc' # sweepPc
    \/ sweepsDone' # sweepsDone

\* C6 as stated: a dataset obtained from a successful live fetch is never
\* replaced by the static dataset (here: not by the post-load sweep, which
\* no failure of that layer's upstream has triggered).
C6_LiveNeverReplacedByStatic ==
    [][ SweepStep =>
          \A d \in Domains :
             ~(layer[d].data = "live" /\ layer'[d].data = "static") ]_vars

(***************************************************************************)
(* Properties of the generative market cache (SpecCache).                  *)
(***************************************************************************)
Pending == { id \in DOMAIN evals : evals[id].st # "done" }
CallerIds == DOMAIN callers

\* C7: however many callers ask while a provider-chain call is pending, no
\* second one is started: at most one evaluation is in progress, a caller
\* waiting for an unsettled result waits for the shared pending one, and
\* all callers that waited for the same evaluation received its result.
C7_OneChainCallShared ==
    /\ Cardinality(Pending) <= 1
    /\ \A c \in CallerIds :
          (callers[c].pc = "await" /\ callers[c].h \in Pending)
             => callers[c].h = fetchInProgress
    /\ \A c, d \in CallerIds :
          (callers[c].pc = "done" /\ callers[d].pc = "done"
             /\ callers[c].h # 0 /\ callers[c].h = callers[d].h)
             => (callers[c].res = callers[d].res /\ callers[c].res = evals[callers[c].h].res)

\* two callers overlapped on the only provider-chain call and got its result
C7_Witness ==
    \E c, d \in CallerIds :
        /\ callers[c].pc = "done" /\ callers[d].pc = "done"
        /\ callers[c].creator /\ ~callers[d].creator
        /\ callers[c].h = 1 /\ callers[d].h = 1 /\ Len(evals) = 1
        /\ callers[c].res = 1 /\ callers[d].res = 1

\* the step is a fetchAIMarketData call by caller c
CallBy(c) == calls' = calls + 1 /\ callers'[c] # callers[c]

\* C8 as stated: a call made once the entry's age has reached the TTL starts
\* a fresh provider fetch.
C8_ExpiredCallStartsFetch ==
    [][ \A c \in CallerIds :
          (CallBy(c) /\ aiCache.has /\ now - aiCache.timestamp >= CACHE_TTL_MS)
             => Len(evals') = Len(evals) + 1 ]_vars

\* C8, amended: a call made once the entry's age has reached the TTL never
\* returns the cached value: it waits for a provider fetch begun after the
\* entry expired (one it starts, or the pending one it joins) and gets that
\* fetch's result, null when it failed, never the stale entry.
C8_ExpiredCallNeverStale ==
    \A c \in CallerIds :
        callers[c].sawStale =>
            /\ callers[c].h \in DOMAIN evals
            /\ evals[callers[c].h].start >= callers[c].sawStamp + CACHE_TTL_MS
            /\ callers[c].pc = "done" =>
                  /\ callers[c].res = evals[callers[c].h].res
                  /\ callers[c].res # callers[c].sawVal

\* a caller that found an entry aged exactly TTL joined the pending fetch;
\* the fetch failed and the caller got null although the stale entry exists
C8_Witness ==
    \E c \in CallerIds :
        /\ callers[c].sawStale /\ callers[c].pc = "done"
        /\ callers[c].at - callers[c].sawStamp = CACHE_TTL_MS
        /\ ~callers[c].creator
        /\ callers[c].res = 0
        /\ aiCache.has /\ aiCache.val = callers[c].sawVal

\* the scenario of C9: a first call that fetched and succeeded, and a second
\* call 2 s later, inside the 10-minute window
TwoCallsTwoSecondsApart ==
    /\ calls = 2
    /\ callers[1].pc = "done" /\ callers[1].creator /\ callers[1].res = 1
    /\ callers[2].pc = "done" /\ callers[2].at = callers[1].at + 2000
    /\ callers[2].sawFresh

\* C9 as stated: the two calls cause exactly one HTTPS call.
C9_ExactlyOneHttpsCall ==
    TwoCallsTwoSecondsApart => httpCalls = 1

\* C9, amended: a call made while the entry is younger than the TTL is served
\* from the cache and starts no provider call; the two calls 2 s apart cause
\* exactly one provider-chain call, which sends one HTTPS request per
\* provider tried (one, or two when xAI fails and OpenAI answers).
C9_FreshCallServedFromCache ==
    /\ [](TwoCallsTwoSecondsApart =>
             /\ Len(evals) = 1
             /\ httpCalls \in {1, 2}
             /\ callers[2].h = 0 /\ callers[2].res = callers[1].res)
    /\ [][ \A c \in CallerIds :
             (CallBy(c) /\ aiCache.has /\ now - aiCache.timestamp < CACHE_TTL_MS)
                => /\ evals' = evals /\ httpCalls' = httpCalls
                   /\ fetchInProgress' = fetchInProgress
                   /\ callers'[c].pc = "done"
                   /\ callers'[c].res = aiCache.val ]_vars

\* the scenario, the first call having got its payload from OpenAI after xAI failed
C9_Witness ==
    /\ TwoCallsTwoSecondsApart
    /\ callers[2].h = 0 /\ callers[2].res = 1
    /\ Len(evals) = 1
    /\ httpCalls = 2

(***************************************************************************)
(* Properties of the news category (SpecNews).                             *)
(***************************************************************************)
\* the call has returned for a category whose feeds are all disabled
DisabledReturned == newsPc = "returned" /\ disabledSources = Feeds

\* what a category that loaded successfully / failed reports as its status
LoadedStatuses == { [status |-> "ok", itemCount |-> n] : n \in 0..1 }
FailedStatuses == { [status |-> "error", itemCount |-> 0] }

RenderIds == 1..Len(renders)
IsFlush(i) == renders[i].items.k # 0
IsFinal(i) == renders[i].items.k = 0

\* C11 as stated: any two renders of the run, partial flushes and the final
\* render alike, are at least 100 ms apart.
C11_AllRendersSpaced ==
    \A i, j \in RenderIds :
        i < j => renders[j].at - renders[i].at >= renderIntervalMs

\* C11, amended: the partial-batch flushes of a run are at least 100 ms
\* apart; the final render is made as soon as the fetch resolves, however
\* recent the last flush.
C11_FlushesSpaced ==
    /\ \A i, j \in RenderIds :
          (i < j /\ IsFlush(i) /\ IsFlush(j))
             => renders[j].at - renders[i].at >= renderIntervalMs
    /\ \A i \in RenderIds : IsFlush(i) => lastRenderTime >= renders[i].at

\* two flushes 100 ms apart (the second by the timer or the gate), then the
\* final render less than 100 ms after the second
C11_Witness ==
    /\ Len(renders) = 3
    /\ IsFlush(1) /\ IsFlush(2) /\ IsFinal(3)
    /\ renders[2].at - renders[1].at = renderIntervalMs
    /\ renders[3].at - renders[2].at < renderIntervalMs

\* the addToSignalHistory calls so far, as positions in `emitted`
EmissionIds == 1..Len(emitted)
EmissionsOf(k) == { i \in EmissionIds : k \in emitted[i].signals }

\* C12: while learning mode is on, no Signal is emitted: no call of
\* addToSignalHistory (or signalModal.show, which only follows it) is made
\* with the flag set, by the flight analysis or by the correlation pass.
C12_NoSignalWhileLearning ==
    \A i \in EmissionIds : ~emitted[i].learning

\* C13: over the passes made so far, the geo-convergence Signal of a cluster
\* has been emitted exactly once if a pass has detected it, and not at all
\* otherwise; a later pass over the same events does not emit it again.
C13_ConvergenceEmittedOnce ==
    \A k \in ClusterKeys :
        Cardinality(EmissionsOf(k)) = IF k \in seenGeoAlerts THEN 1 ELSE 0

\* two passes have completed over the same cluster with learning mode off,
\* and the second emitted something else but not the cluster's Signal
C13_Witness ==
    /\ \A p \in 1..MaxPasses : passPc[p] = "resolved"
    /\ Len(emitted) = 2
    /\ "geo1" \in emitted[1].signals /\ ~emitted[1].learning
    /\ "geo1" \notin emitted[2].signals /\ ~emitted[2].learning
    /\ "geo1" \in geoIndex

\* the executions under way, without their position
Started(bag) == { <<e.name, e.via, e.cyc>> : e \in BagToSet(bag) }

\* C14: once the destroyed flag is set, a runGuarded or loadDataForLayer call
\* starts no operation and adds no name to the in-flight set: from a
\* destroyed state the executions and the in-flight names only shrink.
C14_NoStartOnceDestroyed ==
    [][isDestroyed =>
          /\ inFlight' \subseteq inFlight
          /\ layerLoading' \subseteq layerLoading
          /\ Started(running') \subseteq Started(running)
          /\ BagCardinality(running') <= BagCardinality(running)]_vars

\* destroyed before the first call: every loadAllData and loadDataForLayer
\* call of the run has been made and has returned, and no loader ever ran
C14_Witness ==
    /\ isDestroyed
    /\ cycles = MaxCycles /\ joined = 1..MaxCycles
    /\ layerLoads = MaxLayerLoads
    /\ running = EmptyBag /\ inFlight = {}
    /\ \A d \in Domains : layer[d].data = "none"
    /\ caught = {} /\ liveOk = {}

\* C15: no load entry point rejects: the promises of runGuarded's tasks (and
\* so loadAllData's join) and of loadDataForLayer settle normally whatever
\* an upstream fetch raises.
C15_NoEntryPointRejects == rejected = {}

\* C16: when the weather fetch answers with an empty list or throws,
\* loadWeatherAlerts leaves on the map exactly the embedded static dataset of
\* 8 alerts, marks the weather layer ready, and touches no other layer.
C16_WeatherFallbackStatic ==
    \A o \in {"empty", "throw"} :
        LET w == LoadWeatherAlerts(World, o) IN
        /\ w.layer["weather"] = [data |-> "static", ready |-> TRUE]
        /\ WeatherAlertIds(w.layer["weather"].data) = 1..8
        /\ \A d \in Domains \ {"weather"} : w.layer[d] = layer[d]

\* the weather fetch of the first load cycle threw: the execution has
\* settled, before any sweep, and the layer shows the static alerts, ready
C16_Witness ==
    /\ ml("weather") /\ "weather" \notin liveOk
    /\ cycles = 1 /\ layerLoads = 0 /\ sweepsDone = 0 /\ sweepPc = "idle"
    /\ "weather" \notin inFlight
    /\ layer["weather"] = [data |-> "static", ready |-> TRUE]
    /\ Cardinality(WeatherAlertIds(layer["weather"].data)) = FallbackWeatherAlerts

\* the executions of loadIntelligenceSignals under way
IntelligenceRunning == { e \in BagToSet(running) : OpOf(e) = "intelligence" }

\* C17: loadIntelligenceSignals is never executing twice at the same time,
\* whether started by the 'intelligence' task of the load cycle or by
\* loadDataForLayer for 'ucdpEvents', 'displacement' or 'climate'.
C17_OneIntelligenceExecution ==
    /\ Cardinality(IntelligenceRunning) <= 1
    /\ \A e \in IntelligenceRunning : CopiesIn(e, running) = 1

\* C18: at most one generative call of the population-exposure fallback is
\* outstanding at any time: a request made while an earlier one is pending
\* issues no further provider call.
C18_OneExposureCallOutstanding == Cardinality(ExposureOutstanding) <= 1

\* C19: the renders of a category are time-ordered: a pending batch is never
\* rendered after a newer batch or after the final render, and no deferred
\* flush of a run fires after the run has returned, also when the fetch threw.
C19_OrderedAndNoneAfterReturn ==
    /\ \A i, j \in RenderIds :
          i < j =>
             /\ renders[i].at <= renders[j].at
             /\ (IsFlush(i) /\ IsFlush(j)) => renders[i].items.k < renders[j].items.k
             /\ ~(IsFinal(i) /\ IsFlush(j))
    /\ \A i \in RenderIds : ~renders[i].afterReturn

\* the run has fetched and reported completion without an error
CompletedOk ==
    /\ fetchedFeeds # {}
    /\ newsPc = "baseline" \/ (newsPc = "returned" /\ feedStatus.status = "ok")

\* C20: once loadNewsCategory has the fetch's result, and so before and after
\* it reports completion, the complete item list is what the category holds
\* and, with a panel, the last render of the run; no deferred flush remains.
C20_FinalRenderIsLast ==
    CompletedOk =>
        /\ newsByCategory = ret
        /\ renderTimeout = 0 /\ pendingItems = 0
        /\ hasPanel =>
              /\ Len(renders) > 0
              /\ renders[Len(renders)].items = ret
              /\ IsFinal(Len(renders)) /\ ~renders[Len(renders)].afterReturn

\* a batch was waiting behind an armed timer when the fetch resolved; the run
\* has returned, time has passed beyond the timer's due time, and the final
\* list is still the last render
C20_Witness ==
    /\ CompletedOk /\ newsPc = "returned" /\ hasPanel
    /\ batches = 2 /\ Len(renders) = 2
    /\ IsFlush(1) /\ IsFinal(2)
    /\ now >= renders[1].at + renderIntervalMs

\* the concurrency cap of the variant
Cap == IF cfg.variant = "tech" THEN 4 ELSE 5

\* C21: the categories running at any time belong to one chunk of at most
\* cap consecutive categories; every category before that chunk has settled
\* (fulfilled or rejected) and none after it has started; and a step starts
\* categories only when no category is still running.
C21_ChunksSequential ==
    [][ /\ Cardinality({c \in 1..MaxCategories : catPc'[c] = "running"}) <= Cap
        /\ \A a, b \in 1..MaxCategories :
              (catPc'[a] = "running" /\ b < a) =>
                 \/ catPc'[b] \in {"fulfilled", "rejected"}
                 \/ catPc'[b] = "running" /\ a - b < Cap
        /\ \A a, b \in 1..MaxCategories :
              (catPc'[a] = "running" /\ catPc'[b] = "idle" /\ b <= categories') => a < b
        /\ (\E c \in 1..MaxCategories : catPc[c] # "running" /\ catPc'[c] = "running")
              => /\ \A c \in 1..MaxCategories : catPc[c] # "running"
                 /\ LET started == {c \in 1..MaxCategories :
                                       catPc[c] # "running" /\ catPc'[c] = "running"}
                    IN Cardinality(started) = Min(Cap, categories' - chunkAt') ]_vars

\* six categories: the first chunk of the cap has settled, one of its
\* categories having failed, and the rest run as the second chunk
C21_Witness ==
    /\ categories = 6 /\ chunkAt = Cap
    /\ \E c \in 1..Cap : catPc[c] = "rejected"
    /\ \A c \in 1..Cap : catPc[c] \in {"fulfilled", "rejected"}
    /\ \A c \in (Cap + 1)..6 : catPc[c] = "running"

\* C22: when the first provider's answer fails parsing or key validation and
\* the getter reports the generative step as failed, the second provider has
\* been tried first.
C22_SecondProviderAfterBadParse ==
    (genPc = "done" /\ genRet = "null" /\ genLog.xai \in {"malformed", "nokeys"})
        => genLog.openai # "none"

\* C23: the domain cache only ever holds a payload whose required top-level
\* keys were validated: a JSON value without them is not cached.
C23_CachedPayloadValidated ==
    genCache.has => genCache.payload = "valid"


\* the answer the getter's parse step last worked on
LastAnswer == IF genLog.openai # "none" THEN genLog.openai ELSE genLog.xai

\* C24: when the answer the getter parses is not valid JSON, the getter
\* returns its null result, no exception reaches its caller, and the cache
\* entry is the one that was there when the getter was called.
C24_MalformedFailsClosed ==
    /\ genRet # "throw"
    /\ (genPc = "done" /\ LastAnswer = "malformed")
           => (genRet = "null" /\ genCache = genAtCall)

\* a getter called over an expired cache entry has returned after a malformed
\* answer
C24_Witness ==
    /\ genPc = "done"
    /\ LastAnswer = "malformed"
    /\ genAtCall.has
    /\ genRet = "null"


\* a provider call is under way
ProviderCallPending == genPc \in {"xai", "openai"}

\* the timer armed by the provider call that starts now
OwnTimer == [live |-> TRUE, start |-> now', due |-> now' + AbortAfterMs(genKind)]

TimerInvariant ==
    /\ ProviderCallPending =>
           /\ genTimer.live
           /\ genTimer.due = genTimer.start + AbortAfterMs(genKind)
           /\ now <= genTimer.due
    /\ ~ProviderCallPending => genTimer = NoTimer
    /\ genRet # "throw"

TimerSteps ==
    /\ (genPc = "xai" /\ genPc' = "openai") => genTimer' = OwnTimer
    /\ (ProviderCallPending /\ now >= genTimer.due) =>
           \/ genPc = "xai" /\ genPc' = "openai" /\ genLog'.xai = "timeout"
           \/ /\ genPc = "openai" /\ genPc' = "done" /\ genLog'.openai = "timeout"
              /\ genRet' = "null"

LongestTTL == 60 * 60 * 1000

\* C25: loadOutages, loadCyberThreats, loadProtests and loadMilitary never
\* put on the map a context-held dataset that is older than the TTL of its
\* domain (at most 60 minutes).
C25_CtxCacheServedFresh ==
    \A d \in CtxDomains : ctxShown[d].from = "cache" => ctxShown[d].age < LongestTTL


\* the task names of the list that a load-cycle execution still holds
HeldByCycleTasks ==
    { e.name : e \in { x \in BagToSet(running) : x.via = "guarded" } } \cap inFlight

\* C26: when the join of a load cycle returns (search index, sweep timer), no
\* task name of its list is still held in the in-flight set by a guarded
\* execution, whichever load cycle started that execution.
C26_JoinWaitsForAllTasks ==
    [][joined' # joined => HeldByCycleTasks \cap Range(Tasks) = {}]_vars


\* loadMarkets has completed with the commodities in total failure: stocks
\* rate-limited with no data and nothing usable from the generative
\* fallback, or three commodity fetches without a success
CommoditiesTotalFailure ==
    /\ rtKind = "commodities"
    /\ rtPc = "done"
    /\ \/ rtStocks = "rateLimitedEmpty" /\ rtAI # "data"
       \/ rtAttempts = MaxAttempts /\ rtOkAt = 0

\* C27: when loadMarkets completes with the commodities in total failure, the
\* last thing it gave the commodities panel is a dataset or an error state,
\* not an empty list, a retrying notice, or nothing at all.
C27_CommoditiesNeverLeftEmpty ==
    CommoditiesTotalFailure => rtPanel \in {"data", "error"}

\* C28: one load makes at most three fetch attempts, none after the attempt
\* that succeeded, and every attempt after the first is started by the
\* loader's own timer no sooner than the backoff of the domain (commodities
\* 20 s, UCDP 15 s) after the failed attempt before it.
C28_RetryPolicy ==
    /\ rtAttempts <= MaxAttempts
    /\ rtOkAt > 0 => rtAttempts = rtOkAt /\ rtPc = "done"
    /\ rtAttempts > 0 => Len(rtGaps) = rtAttempts - 1
    /\ \A i \in DOMAIN rtGaps : rtGaps[i] >= Backoff(rtKind)

\* a load succeeded at its third attempt
C28_Witness ==
    /\ rtPc = "done"
    /\ rtAttempts = MaxAttempts
    /\ rtOkAt = MaxAttempts
    /\ Len(rtGaps) = 2


\* C30: two map flashes for the same cache key are never less than the
\* 10-minute cooldown apart, whether the items came in one batch or in
\* successive ones.
C30_OneFlashPerCooldown ==
    \A i, j \in DOMAIN flashLog :
        (i < j /\ flashLog[i].key = flashLog[j].key)
            => flashLog[j].at - flashLog[i].at >= MAP_FLASH_COOLDOWN_MS

\* a key was flashed, passed over inside the cooldown, and flashed again
\* once the cooldown was over
C30_Witness ==
    /\ flashSkips > 0
    /\ \E i, j \in DOMAIN flashLog : i < j /\ flashLog[i].key = flashLog[j].key


\* no entry of the flash cache is older than the cooldown after this step
NoExpiredEntryLeft ==
    \A k \in DOMAIN mapFlashCache' : now' - mapFlashCache'[k] <= MAP_FLASH_COOLDOWN_MS

\* every call of flashMapForNews, the ones that return early included,
\* leaves no entry older than the cooldown in the cache
C31_SweptAfterAnyCall == [][flashCalls' # flashCalls => NoExpiredEntryLeft]_vars

\* C31: a call of flashMapForNews that gets past its early returns (map set,
\* initial load complete, map-flash setting on) leaves no entry older than
\* the 10-minute cooldown in the flash cache.
C31_SweptOnUse ==
    [][(flashCalls' # flashCalls /\ flashReady /\ mapNewsFlash) => NoExpiredEntryLeft]_vars

\* a key that was flashed has been removed from the cache by a later call
C31_Witness ==
    /\ flashReady /\ mapNewsFlash
    /\ \E i \in DOMAIN flashLog :
          /\ flashLog[i].key \notin DOMAIN mapFlashCache
          /\ now - flashLog[i].at > MAP_FLASH_COOLDOWN_MS


\* loadNewsCategory has returned after a fetch that resolved with zero items
ZeroItemsReturned ==
    /\ newsPc = "returned"
    /\ fetchedFeeds # {}
    /\ feedStatus = [status |-> "ok", itemCount |-> 0]

\* C32: a category whose fetch returned zero items ends in the failed-fetch
\* state exactly when a failure of one of its enabled feeds is recorded, so
\* that a failed category can be told from one that is legitimately empty.
C32_FailedDistinctFromEmpty ==
    ZeroItemsReturned => (feedFailed <=> panelMsg = "fetchFailed")


\* C33: the feeds passed to the fetcher are exactly the feeds of the category
\* whose source name is not in the disabled-sources set, and one network
\* request is made for each of them.
C33_FetchedAreTheEnabledFeeds ==
    newsPc # "idle" =>
        /\ fetchedFeeds = { f \in Feeds : f \notin disabledSources }
        /\ netCalls = Cardinality(fetchedFeeds)

\* five feeds, two of them disabled, three fetched
C33_Witness ==
    /\ newsPc = "returned"
    /\ Cardinality(Feeds) = 5
    /\ Cardinality(disabledSources) = 2
    /\ Cardinality(fetchedFeeds) = 3
    /\ fetchedFeeds \cap disabledSources = {}


\* this step is a setExposures call
IsSetExposuresCall == \E r \in 1..MaxExposureCalls : expReq[r] = "idle" /\ expReq'[r] # "idle"

\* C34: exposures delivered to the panel are replaced only by a later
\* setExposures call, never by the settling of a generative request (which
\* can only have been started before they arrived).
C34_LiveNotOverwrittenByFallback ==
    [][(expPanel = "exposures" /\ expPanel' # "exposures") => IsSetExposuresCall]_vars


\* C35: while the sweep awaits loadHungerData or loadNaturalResources, no
\* guarded task and no layer load holds the name 'hunger' or
\* 'naturalResources' of that loader in the in-flight set.
C35_SweepNotBesideGuardedLoad ==
    sweepPc \in {"hunger", "naturalResources"} => sweepPc \notin inFlight

\* C36: a sweep timer that fires once the destroyed flag is set starts no
\* generative call and leaves every map layer as it was.
C36_NoSweepOnceDestroyed ==
    [][(isDestroyed /\ sweepTimers' < sweepTimers)
           => (sweepPc' = "idle" /\ layer' = layer)]_vars


\* this step is a call of loadAllData or of loadDataForLayer
IsEntryCall == cycles' # cycles \/ layerLoads' # layerLoads

\* the executions a step starts
StartedBy == { e \in BagToSet(running') : CopiesIn(e, running') > CopiesIn(e, running) }

\* C37: runGuarded and loadDataForLayer consult one in-flight set: a call
\* through either entry point starts an execution only under a name that is
\* not in flight, whichever entry point registered it, and switches the
\* loading indicator only of a layer whose name was not in flight.
C37_SharedInFlightSet ==
    [][IsEntryCall =>
          /\ \A e \in StartedBy : e.name \notin inFlight
          /\ \A l \in (layerLoading' \ layerLoading) \cup (layerLoading \ layerLoading') :
                 l \notin inFlight
          /\ inFlight' = inFlight \cup { e.name : e \in StartedBy }]_vars

\* a load cycle called a task whose name a layer load held: no guarded
\* execution of it was started and the layer load goes on
C37_Witness ==
    \E l \in dupCalls :
        /\ cycles = 1 /\ layerLoads = 1
        /\ l \in layerLoading /\ l \in inFlight
        /\ \E e \in BagToSet(running) : e.name = l /\ e.via = "layer"
        /\ \A e \in BagToSet(running) : e.name = l => e.via = "layer"


(***************************************************************************)
(* C38: when a provider-chain evaluation settles, the in-flight handle is  *)
(* cleared and a failed (null) result is not stored in the cache, so the   *)
(* first call after a failure starts exactly one new evaluation and the    *)
(* domain never stays wedged on a finished request.                        *)
(***************************************************************************)
\* the handle still names an evaluation that has finished
FinishedHandleHeld == fetchInProgress # 0 /\ evals[fetchInProgress].st = "done"

\* every evaluation so far has finished and the last one gave null
LastEvaluationFailed ==
    /\ Len(evals) > 0
    /\ \A id \in DOMAIN evals : evals[id].st = "done"
    /\ evals[Len(evals)].res = 0

\* this step is the settlement of an evaluation with null
SettlesWithNull ==
    \E id \in DOMAIN evals :
        evals[id].st # "done" /\ evals'[id].st = "done" /\ evals'[id].res = 0

\* this step is a call that finds no valid cache entry after a failure
CallAfterFailure ==
    /\ calls' = calls + 1
    /\ LastEvaluationFailed
    /\ ~(aiCache.has /\ now - aiCache.timestamp < CACHE_TTL_MS)

\* that call starts one evaluation and holds its handle
StartsOneEvaluation ==
    /\ Len(evals') = Len(evals) + 1
    /\ evals'[Len(evals')].st # "done"
    /\ fetchInProgress' = Len(evals')
    /\ httpCalls' = httpCalls + 1

C38_Steps ==
    /\ SettlesWithNull => aiCache' = aiCache
    /\ CallAfterFailure => StartsOneEvaluation
    /\ now' # now => ~FinishedHandleHeld

\* C38: a finished request is held only until the queued finally of its
\* creator has run, never across a clock step; a null result leaves the
\* cache as it was; the first call after a failure starts exactly one new
\* evaluation.
C38_FailureNeverWedges ==
    /\ [](FinishedHandleHeld => FinallyQueued)
    /\ [][C38_Steps]_vars

\* a failed evaluation was followed by a call that started the second
\* evaluation, which is now pending under the handle
C38_Witness ==
    /\ Len(evals) = 2
    /\ evals[1].st = "done" /\ evals[1].res = 0
    /\ evals[2].st # "done"
    /\ fetchInProgress = 2
    /\ ~aiCache.has

(***************************************************************************)
(* C39: waitForAisData terminates: at most 30 status checks one second     *)
(* apart, loadAisSignals called at most once (on the first check that sees *)
(* a connection or vessels), a timeout reported after the 30th             *)
(* unsuccessful check, and no further check scheduled once the destroyed   *)
(* flag is set.                                                            *)
(***************************************************************************)
AisBounded ==
    /\ aisAttempts <= 30
    /\ \A g \in aisGaps : g >= 1000
    /\ Len(aisLoads) <= 1
    /\ aisLoads # <<>> <=> aisSeen # {}
    /\ aisSeen # {} => aisSeen = {aisAttempts} /\ aisLoads[1] = aisAttempts /\ aisPc = "done"
    /\ aisFeed = "Connection timeout" <=> (aisAttempts = 30 /\ aisSeen = {})
    /\ aisPc = "scheduled" => aisAttempts < 30

\* once destroyed: no status check, no timer armed
AisStoppedByDestroy ==
    isDestroyed =>
        /\ aisAttempts' = aisAttempts
        /\ aisDue' = aisDue
        /\ aisPc' = "scheduled" => aisPc = "scheduled"

\* C39: the checks are bounded and spaced, the load and the timeout happen as
\* stated, destruction stops the polling, and a pending poll always ends
C39_WaitForAisDataTerminates ==
    /\ []AisBounded
    /\ [][AisStoppedByDestroy]_vars
    /\ (aisPc = "scheduled" ~> aisPc = "done")

\* thirty unsuccessful checks, some of them late, ended in the timeout
C39_Witness ==
    /\ aisAttempts = 30
    /\ aisFeed = "Connection timeout"
    /\ aisLayer = "notReady"
    /\ aisLoads = <<>>
    /\ aisGaps = {1000, 1500}
    /\ ~isDestroyed
====
